---------------------------- MODULE Spec2Model ----------------------------
(***************************************************************************)
(* germ-tank: the germ-code interpreter and mutation engine (germ_brain.py) *)
(* and the tank simulation (germ_tank.py).                                  *)
(*                                                                          *)
(* The specifications that share this module:                               *)
(*   Spec       the tank: construction, update() split at its loop          *)
(*              iterations, and the save/load round trip;                   *)
(*   SpecRun    GermBrain.run, one loop iteration per step (SpecRunLive:    *)
(*              with the fairness of an unsuspended call);                  *)
(*   SpecEval   GermBrain.resolve_value, one call;                          *)
(*   SpecMut    GermBrain.mutate, one call per step, from STARTING_CODE;    *)
(*   SpecRunner the runners of tank_runner.py: the run() loop, the Tk       *)
(*              callbacks and the signal handler.                           *)
(*                                                                          *)
(* Python values are represented as follows.                                *)
(*   int n            <<"int", n>>        (in germ code)                    *)
(*   str 'energy'     <<"str", "energy">>                                   *)
(*   str f'm{k}'      <<"str", "m", k>>   (a mark id: 'm' and the digits)   *)
(*   list [t, a, ..]  <<t, a, ..>>        (commands and operators)          *)
(*   bool             1 / 0 where it is a germ-code value (Python's bool is *)
(*                    an int and germ code only uses it as one)             *)
(*   float            fixed point, SCALE units to 1.0                       *)
(*   object reference an id in 1..; None is 0 in the tank grid              *)
(* List indices are Python's (0-based); Seq[i + 1] reads list[i].           *)
(***************************************************************************)
EXTENDS Integers, Sequences, FiniteSets, TLC

VARIABLES
    \* ---- GermTank (Spec) ----
    tank,        \* self.tank: for each cell the entity it references, 0 for None
    objects,     \* self.objects: list of entity references
    new_germs,   \* self.new_germs
    ents,        \* the entity dicts, by reference
    food_count,  \* self.food_count
    pc,          \* where update() stands: "idle" between ticks, "iter" in its
                 \* for loop, "reconcile", "regrow", "aborted" after an
                 \* exception left it
    idx,         \* position of the for loop in self.objects
    burst_turn,  \* update()'s argument
    ticks,       \* update() calls made
    was_alive,   \* history: the entities that were alive when update() was
                 \* called, {} between ticks
    \* ---- GermBrain.run (SpecRun, and the last call made by Spec) ----
    code,        \* self.code of the brain that runs
    state,       \* self.state, the snapshot handed to run()
    regs,        \* run()'s locals (head, ax, ay, burst, power, executed, cmd,
                 \* expr), self.memory, and where the call stands
                 \* (running / returned / raised) with what it returned
    calls,       \* number of run() calls made on this brain
    \* ---- GermBrain.mutate (SpecMut) ----
    brain,       \* self.code and self.mark_ids of the brain under mutation
    mutations,   \* mutate() calls __init__ still has to make
    \* ---- TankRunner (SpecRunner) ----
    runner       \* the runner's fields (stop_requested, pause), whether the Tk
                 \* window exists, and where the run() loop and the main
                 \* thread stand

tankVars ==
    <<tank, objects, new_germs, ents, food_count, pc, idx, burst_turn, ticks,
      was_alive>>
runVars == <<code, state, regs, calls>>
mutVars == <<brain, mutations>>
runnerVars == <<runner>>

vars == <<tank, objects, new_germs, ents, food_count, pc, idx, burst_turn, ticks,
          was_alive, code, state, regs, calls, brain, mutations, runner>>

\* no runner has been created
NoRunner == runner = <<>>

(***************************************************************************)
(* Bounds of the model.  The program's own sizes (10000 steps, 100          *)
(* registers) are scaled down to these.                                     *)
(***************************************************************************)
MAX_EXECUTIONS == 12
MEMORY_SIZE == 2
DIVIDE_BY_ZERO == 1000000

\* fixed-point unit of the floats (energy, stamina, brightness)
SCALE == 1000

Max(a, b) == IF a >= b THEN a ELSE b
Min(a, b) == IF a <= b THEN a ELSE b
Abs(a) == IF a < 0 THEN -a ELSE a
Max_ids(S) == CHOOSE n \in S : \A k \in S : k <= n

\* int(a / b) and int(float): Python truncates toward zero
IntDiv(a, b) ==
    LET q == Abs(a) \div Abs(b)
    IN  IF (a < 0) # (b < 0) THEN -q ELSE q

IntLit(n) == <<"int", n>>
Str(s) == <<"str", s>>
\* f'm{new_id}' and int(name[1:])
MarkName(id) == <<"str", "m", id>>
MarkId(name) == name[3]

(***************************************************************************)
(* resolve_value.  A result is [err, v]: err is a raised exception.         *)
(***************************************************************************)
Ok(v) == [err |-> FALSE, v |-> v]
Raise == [err |-> TRUE, v |-> 0]
Bool(b) == IF b THEN 1 ELSE 0

StateKeys == {"energy", "brightness", "stamina", "pain", "view", "success"}

\* int(self.state[expr])
StateInt(st, key) ==
    CASE key = "energy" -> IntDiv(st.energy, SCALE)
      [] key = "brightness" -> IntDiv(st.brightness, SCALE)
      [] key = "stamina" -> IntDiv(st.stamina, SCALE)
      [] key = "pain" -> st.pain
      [] key = "success" -> Bool(st.success)

BinaryOps == {"+", "-", "*", "/", "<", ">", "==", "!="}

\* operators in which dividing by zero gives 0
ApplyBinaryZero(op, a, b) ==
    CASE op = "+" -> a + b
      [] op = "-" -> a - b
      [] op = "*" -> a * b
      [] op = "/" -> IF b = 0 THEN 0 ELSE IntDiv(a, b)
      [] op = "<" -> Bool(a < b)
      [] op = ">" -> Bool(a > b)
      [] op = "==" -> Bool(a = b)
      [] op = "!=" -> Bool(a # b)

ApplyBinary(op, a, b) ==
    CASE op = "+" -> a + b
      [] op = "-" -> a - b
      [] op = "*" -> a * b
      [] op = "/" -> IF b = 0 THEN DIVIDE_BY_ZERO ELSE IntDiv(a, b)
      [] op = "<" -> Bool(a < b)
      [] op = ">" -> Bool(a > b)
      [] op = "==" -> Bool(a = b)
      [] op = "!=" -> Bool(a # b)

\* self.state['view'][which][index % len][axis], 0 on an empty list
ViewLookup(st, which, axis, index) ==
    LET lst == IF which = "germs" THEN st.view.germs ELSE st.view.food
    IN  IF Len(lst) = 0 THEN 0
        ELSE IF axis = "dx" THEN lst[(index % Len(lst)) + 1].dx
             ELSE lst[(index % Len(lst)) + 1].dy

RECURSIVE resolve_value(_, _, _)
resolve_value(expr, mem, st) ==
    IF expr[1] = "int" THEN Ok(expr[2])
    ELSE IF expr[1] = "str" THEN
        IF Len(expr) = 2 /\ expr[2] \in StateKeys /\ expr[2] # "view"
        THEN Ok(StateInt(st, expr[2]))
        ELSE Raise
    ELSE IF expr[1] \in {"float", "None"} THEN Raise
    ELSE IF expr[1] \in BinaryOps THEN
        LET a == resolve_value(expr[2], mem, st)
        IN  IF a.err THEN Raise
            ELSE LET b == resolve_value(expr[3], mem, st)
                 IN  IF b.err THEN Raise
                     ELSE Ok(ApplyBinary(expr[1], a.v, b.v))
    ELSE IF expr[1] = "&" THEN
        LET a == resolve_value(expr[2], mem, st)
        IN  IF a.err THEN Raise
            ELSE IF a.v = 0 THEN a
            ELSE resolve_value(expr[3], mem, st)
    ELSE IF expr[1] = "|" THEN
        LET a == resolve_value(expr[2], mem, st)
        IN  IF a.err THEN Raise
            ELSE IF a.v # 0 THEN a
            ELSE resolve_value(expr[3], mem, st)
    ELSE IF expr[1] = "!" THEN
        LET a == resolve_value(expr[2], mem, st)
        IN  IF a.err THEN Raise ELSE Ok(Bool(a.v = 0))
    ELSE IF expr[1] = "m" THEN
        LET a == resolve_value(expr[2], mem, st)
        IN  IF a.err THEN Raise ELSE Ok(mem[(a.v % Len(mem)) + 1])
    ELSE IF expr[1] \in {"gix", "giy", "fix", "fiy"} THEN
        LET a == resolve_value(expr[2], mem, st)
        IN  IF a.err THEN Raise
            ELSE Ok(ViewLookup(st,
                               IF expr[1] \in {"gix", "giy"} THEN "germs" ELSE "food",
                               IF expr[1] \in {"gix", "fix"} THEN "dx" ELSE "dy",
                               a.v))
    ELSE Raise

(***************************************************************************)
(* run().  A request is the returned dict: keys is the set of its keys.     *)
(***************************************************************************)
Request(keys, action, x, y, burst, power) ==
    [keys |-> keys, action |-> action, x |-> x, y |-> y,
     burst |-> burst, power |-> power]

EmptyRequest == Request({}, "", 0, 0, FALSE, 0)
HaltRequest == Request({"action"}, "halt", 0, 0, FALSE, 0)
MoveRequest(x, y, b) == Request({"x", "y", "action", "burst"}, "move", x, y, b, 0)
BirthRequest(x, y, b) == Request({"x", "y", "action", "burst"}, "birth", x, y, b, 0)
AttackRequest(x, y, b, p) ==
    Request({"x", "y", "action", "burst", "power"}, "attack", x, y, b, p)

\* ax / ay taken as computed, without the clamp
Unclamped(v) == v

\* clamp of ax / ay to -1, 0, 1 by sign
Sign(v) == IF v < 0 THEN -1 ELSE IF v > 0 THEN 1 ELSE 0

\* for i, elem in enumerate(self.code): the first mark named dest, or -1
FindMark(cd, dest) ==
    LET hits == {i \in 0..(Len(cd) - 1) :
                    cd[i + 1][1] = "mrk" /\ cd[i + 1][2] = dest}
    IN  IF hits = {} THEN -1
        ELSE CHOOSE i \in hits : \A j \in hits : i <= j

\* run()'s locals at entry
RunEntry(mem) ==
    [head |-> 0, ax |-> 0, ay |-> 0, burst |-> FALSE, power |-> 0,
     executed |-> 0, cmd |-> "", expr |-> 0, memory |-> mem,
     status |-> "running", result |-> EmptyRequest]

Return(r, req) == [r EXCEPT !.status = "returned", !.result = req]
Raised(r) == [r EXCEPT !.status = "raised"]
Advance(r) == [r EXCEPT !.head = @ + 1]

\* a budget test that lets one more step through
BudgetLeftOffByOne(executed) == executed <= MAX_EXECUTIONS

\* a budget test that never fails
BudgetUnlimited(executed) == TRUE

\* the budget test of the while loop
BudgetLeft(executed) == executed < MAX_EXECUTIONS

\* a branch taken on a true condition
BranchHeadIfTrue(head, v, mark) == IF v # 0 THEN mark ELSE head

\* where an 'if' whose condition is v, and whose mark is at mark, leaves head
\* before the loop's head += 1
BranchHead(head, v, mark) == IF v = 0 THEN mark ELSE head

\* One evaluation of the while condition and, if it holds, one pass through
\* the loop body.
RunStep(r, cd, st) ==
    IF ~BudgetLeft(r.executed) THEN Return(r, HaltRequest)
    ELSE
    LET r1 == [r EXCEPT !.executed = @ + 1]
    IN  IF r1.head >= Len(cd) THEN Return(r1, EmptyRequest)
        ELSE
        LET ins == cd[r1.head + 1]
            cmd == ins[1]
            arg1 == resolve_value(ins[2], r1.memory, st)
            r2 == [r1 EXCEPT !.cmd = cmd]
        IN  CASE cmd = "set" ->
                   IF arg1.err THEN Raised(r2)
                   ELSE LET value == resolve_value(ins[3], r2.memory, st)
                        IN  IF value.err THEN Raised(r2)
                            ELSE Advance([r2 EXCEPT
                                   !.memory[(arg1.v % Len(r2.memory)) + 1] = value.v])
              [] cmd = "if" ->
                   IF arg1.err THEN Raised(r2)
                   ELSE IF arg1.v = 0 /\ FindMark(cd, ins[3]) = -1 THEN Raised(r2)
                   ELSE Advance([r2 EXCEPT
                          !.expr = arg1.v,
                          !.head = BranchHead(r2.head, arg1.v, FindMark(cd, ins[3]))])
              [] cmd = "mrk" -> Advance(r2)
              [] cmd = "ax" ->
                   IF arg1.err THEN Raised(r2)
                   ELSE Advance([r2 EXCEPT !.ax = Sign(arg1.v)])
              [] cmd = "ay" ->
                   IF arg1.err THEN Raised(r2)
                   ELSE Advance([r2 EXCEPT !.ay = Sign(arg1.v)])
              [] cmd = "bst" ->
                   IF arg1.err THEN Raised(r2)
                   ELSE Advance([r2 EXCEPT !.burst = (arg1.v = 1)])
              [] cmd = "pwr" ->
                   IF arg1.err THEN Raised(r2)
                   ELSE Advance([r2 EXCEPT !.power = arg1.v % 6])
              [] cmd = "mv" -> Return(r2, MoveRequest(r2.ax, r2.ay, r2.burst))
              [] cmd = "bir" -> Return(r2, BirthRequest(r2.ax, r2.ay, r2.burst))
              [] cmd = "att" ->
                   Return(r2, AttackRequest(r2.ax, r2.ay, r2.burst, r2.power))
              [] cmd = "ret" -> Return(r2, EmptyRequest)
              [] OTHER -> Raised(r2)

\* run() as one call: the loop to its end
RECURSIVE RunLoop(_, _, _)
RunLoop(r, cd, st) ==
    IF r.status # "running" THEN r ELSE RunLoop(RunStep(r, cd, st), cd, st)

run(cd, mem, st) == RunLoop(RunEntry(mem), cd, st)

(***************************************************************************)
(* SpecRun: one brain, run() called on it a few times, one loop iteration   *)
(* per step.                                                                *)
(***************************************************************************)
MaxCalls == 2

STARTING_CODE ==
    << <<"if", <<">", Str("energy"), IntLit(70)>>, MarkName(0)>>,
       <<"ax", IntLit(1)>>,
       <<"bir">>,
       <<"mrk", MarkName(0)>>,
       <<"ax", <<"fix", IntLit(0)>>>>,
       <<"ay", <<"fiy", IntLit(0)>>>>,
       <<"mv">> >>

\* Codes the mutation engine can produce from STARTING_CODE
EvolvedCodes ==
    { STARTING_CODE,
      \* no terminal instruction, straight line
      << <<"ax", IntLit(1)>> >>,
      << <<"mrk", MarkName(0)>>, <<"set", IntLit(0), <<"+", <<"m", IntLit(0)>>, IntLit(1)>>>>,
         <<"pwr", <<"m", IntLit(0)>>>> >>,
      \* no terminal instruction, a backward branch taken forever
      << <<"mrk", MarkName(0)>>, <<"if", IntLit(0), MarkName(0)>> >>,
      << <<"mrk", MarkName(1)>>, <<"set", IntLit(1), <<"!", <<"m", IntLit(1)>>>>>>,
         <<"ay", IntLit(-1)>>, <<"if", <<"<", Str("energy"), IntLit(0)>>, MarkName(1)>> >>,
      \* no terminal instruction, a backward branch taken while m[0] < 3
      << <<"mrk", MarkName(0)>>, <<"set", IntLit(0), <<"+", <<"m", IntLit(0)>>, IntLit(1)>>>>,
         <<"if", <<">", <<"m", IntLit(0)>>, IntLit(2)>>, MarkName(0)>> >>,
      \* a forward branch over an attack
      << <<"pwr", IntLit(5)>>, <<"bst", Str("success")>>,
         <<"if", <<"gix", IntLit(0)>>, MarkName(0)>>,
         <<"ax", <<"gix", IntLit(0)>>>>, <<"att">>, <<"mrk", MarkName(0)>>,
         <<"ay", <<"/", IntLit(4), <<"giy", IntLit(1)>>>>>>, <<"att">> >>,
      << <<"ret">>, <<"mv">> >> }

\* Codes only a hand-written save file can hold: each raises in run()
MalformedCodes ==
    { << <<"ax", Str("view")>>, <<"mv">> >>,
      << <<"ay", <<"%", IntLit(1), IntLit(2)>>>>, <<"mv">> >>,
      << <<"nop">>, <<"mv">> >>,
      << <<"if", IntLit(0), MarkName(3)>>, <<"mv">> >> }

RunCodes == EvolvedCodes \cup MalformedCodes

Seen(dx, dy, is_food) == [dx |-> dx, dy |-> dy, is_food |-> is_food]

RunViews ==
    { [germs |-> <<>>, food |-> <<>>],
      [germs |-> <<Seen(-1, 0, FALSE)>>, food |-> <<Seen(0, 1, TRUE), Seen(1, 0, TRUE)>>],
      [germs |-> <<>>, food |-> <<Seen(-2, 0, TRUE), Seen(1, 2, TRUE)>>] }

RunStates ==
    [energy : {30 * SCALE, 70 * SCALE + 500, 71 * SCALE},
     brightness : {SCALE},
     stamina : {10 * SCALE},
     pain : {0},
     view : RunViews,
     success : BOOLEAN]

\* the variables of the other specifications, at rest
NoTank ==
    /\ tank = <<>> /\ objects = <<>> /\ new_germs = <<>> /\ ents = <<>>
    /\ food_count = 0 /\ pc = "idle" /\ idx = 0 /\ burst_turn = FALSE /\ ticks = 0
    /\ was_alive = {}
NoMut == brain = <<>> /\ mutations = 0

InitRun ==
    /\ NoTank /\ NoMut /\ NoRunner
    /\ code \in RunCodes
    /\ state \in RunStates
    /\ regs = RunEntry([i \in 1..MEMORY_SIZE |-> 0])
    /\ calls = 1

\* one pass through the while loop of run()
RunIter ==
    /\ regs.status = "running"
    /\ regs' = RunStep(regs, code, state)
    /\ UNCHANGED <<code, state, calls, tankVars, mutVars, runnerVars>>

\* the next call of run() on the same brain: memory is kept
RunCall ==
    /\ regs.status = "returned"
    /\ calls < MaxCalls
    /\ calls' = calls + 1
    /\ state' \in RunStates
    /\ regs' = RunEntry(regs.memory)
    /\ UNCHANGED <<code, tankVars, mutVars, runnerVars>>

NextRun == RunIter \/ RunCall

SpecRun == InitRun /\ [][NextRun]_vars

\* run() is not suspended: a call that has not ended makes its next pass
SpecRunLive == InitRun /\ [][NextRun]_vars /\ WF_vars(RunIter)

(***************************************************************************)
(* SpecEval: resolve_value called once on an expression.  code holds the    *)
(* expression, regs the memory and, after the call, its result.             *)
(***************************************************************************)
Perception == {"gix", "giy", "fix", "fiy"}

\* sample of the values of germ code, 'view' among them
EvalAtoms ==
    {IntLit(0), IntLit(4), IntLit(-3), Str("pain"), Str("energy"), Str("view")}

\* sample of the operand expressions: values and operators on values
EvalOperands ==
    EvalAtoms
        \cup {<<op, a>> : op \in Perception \cup {"m", "!"}, a \in {IntLit(0), IntLit(4)}}
        \cup {<<op, a, b>> : op \in {"/", "-"}, a \in {IntLit(4)},
                              b \in {IntLit(0), IntLit(4), Str("pain")}}

\* sample of the expressions evaluated
EvalExprs ==
    {<<"/", a, b>> : a \in {IntLit(4), IntLit(0), Str("energy"), Str("view")},
                     b \in EvalOperands}
        \cup {<<op, a>> : op \in Perception, a \in EvalOperands}

EvalMemories == {[i \in 1..MEMORY_SIZE |-> 0], [i \in 1..MEMORY_SIZE |-> 5 - i]}

InitEval ==
    /\ NoTank /\ NoMut /\ NoRunner
    /\ code \in EvalExprs
    /\ state \in RunStates
    /\ regs \in [status : {"pending"}, memory : EvalMemories, value : {Raise}]
    /\ calls = 0

\* self.resolve_value(expr)
Evaluate ==
    /\ regs.status = "pending"
    /\ regs' = [regs EXCEPT !.status = "done",
                            !.value = resolve_value(code, regs.memory, state)]
    /\ calls' = calls + 1
    /\ UNCHANGED <<code, state, tankVars, mutVars, runnerVars>>

NextEval == Evaluate

SpecEval == InitEval /\ [][NextEval]_vars

(***************************************************************************)
(* The mutation engine.  A brain here is [code, mark_ids, raised]: raised   *)
(* is an exception out of mutate().  Every operator returns the set of      *)
(* brains the random choices can lead to.                                   *)
(***************************************************************************)
\* sample of randrange(-500, 500)
RandInts == {}
\* the special values rand_value chooses from
RandSymbols == {"energy", "brightness", "stamina", "pain", "success"}
\* sample of the special values
SampleSymbols == {"energy"}
\* sample of randrange(-1, 1)
SampleSmall == {0}

\* rand_value: randrange(-1, 1), randrange(-500, 500), a special value
rand_value ==
    {IntLit(n) : n \in (-1..0) \cap SampleSmall} \cup {IntLit(n) : n \in RandInts}
        \cup {Str(sym) : sym \in RandSymbols \cap SampleSymbols}

UnaryTags == {"!", "m", "gix", "giy", "fix", "fiy"}
BinaryTags == {"+", "-", "*", "/", "&", "|", "<", ">", "==", "!="}
\* sample of the operators rand_operator chooses from
SampleTags == {"+", "fix"}

rand_operator ==
    {<<t, a, b>> : t \in BinaryTags \cap SampleTags, a \in rand_value, b \in rand_value}
        \cup {<<t, a>> : t \in UnaryTags \cap SampleTags, a \in rand_value}

\* the first character of a str
FirstChar(str) ==
    IF Len(str) = 3 THEN str[2]
    ELSE CASE str[2] = "energy" -> "e"
           [] str[2] = "brightness" -> "b"
           [] str[2] = "stamina" -> "s"
           [] str[2] = "pain" -> "p"
           [] str[2] = "success" -> "s"
           [] OTHER -> "v"

IsValue(elem) == elem[1] \in {"int", "str"}

\* flatten: the mutable elements, each <<kind, address>>
RECURSIVE flatten(_, _)
flatten(code_elem, address) ==
    IF IsValue(code_elem) THEN
        IF code_elem[1] = "str" /\ FirstChar(code_elem) = "m" THEN {}
        ELSE {<<"val", address>>}
    ELSE IF Len(address) = 1 /\ code_elem[1] = "mrk" THEN {}
    ELSE
        LET own == IF Len(address) = 1 THEN {<<"cmd", address>>}
                   ELSE IF \A i \in 2..Len(code_elem) : IsValue(code_elem[i])
                        THEN {<<"oper", address>>}
                        ELSE {}
        IN  own \cup UNION {flatten(code_elem[i + 1], Append(address, i)) :
                               i \in 1..(Len(code_elem) - 1)}

\* flat_code of mutate()
FlatCode(cd) == UNION {flatten(cd[i + 1], <<i>>) : i \in 0..(Len(cd) - 1)}

\* list.pop(i), list.insert(i, x), list.remove(x)
Pop(lst, i) == SubSeq(lst, 1, i) \o SubSeq(lst, i + 2, Len(lst))
Insert(lst, i, x) ==
    LET at == Min(i, Len(lst))
    IN  SubSeq(lst, 1, at) \o <<x>> \o SubSeq(lst, at + 1, Len(lst))
Remove(lst, x) ==
    LET i == CHOOSE i \in 1..Len(lst) :
                 lst[i] = x /\ \A j \in 1..(i - 1) : lst[j] # x
    IN  Pop(lst, i - 1)
Contains(lst, x) == \E i \in 1..Len(lst) : lst[i] = x

\* self.mark_ids as __init__ collects it
MarkIdsOf(cd) == {MarkId(cd[i][2]) : i \in {j \in 1..Len(cd) : cd[j][1] = "mrk"}}

Brain(cd, ids) == [code |-> cd, mark_ids |-> ids, raised |-> FALSE]
Crashed(cd, ids) == [code |-> cd, mark_ids |-> ids, raised |-> TRUE]

\* an allocation that forgets the "+ 2" and the set difference
NewMarkIdMax(ids) == IF ids # {} THEN Max_ids(ids) ELSE 0

\* the id add_rand_mark allocates
NewMarkId(ids) ==
    IF ids # {}
    THEN LET all_ids == 0..(Max_ids(ids) + 1)
         IN  CHOOSE n \in all_ids \ ids : \A k \in all_ids \ ids : n <= k
    ELSE 0

\* add_rand_mark: the brains after the mark is inserted at a random place
\* add_rand_mark that returns the new name without inserting the mark
add_rand_mark_unplaced(cd, ids) == {Brain(cd, ids \cup {NewMarkId(ids)})}

add_rand_mark(cd, ids) ==
    {Brain(Insert(cd, pos, <<"mrk", MarkName(NewMarkId(ids))>>),
           ids \cup {NewMarkId(ids)}) : pos \in 0..Len(cd)}

\* the list rand_command chooses from, given the name add_rand_mark returned
CommandList(mark) ==
    {<<"set", a, b>> : a \in rand_value, b \in rand_value}
        \cup {<<"if", a, mark>> : a \in rand_value}
        \cup {<<t, a>> : t \in {"ax", "ay", "bst", "pwr"}, a \in rand_value}
        \cup {<<"mv">>, <<"bir">>, <<"att">>, <<"ret">>}

\* sample of the commands rand_command chooses from
SampleCommands == {"set", "if", "pwr", "att", "ret"}
CommandChoices(mark) == {c \in CommandList(mark) : c[1] \in SampleCommands}

\* rand_command: every entry of its list is built, the mark with them, and
\* then one entry is chosen.  <<brain after add_rand_mark, the command>>
rand_command(cd, ids) ==
    {<<b, c>> : b \in add_rand_mark(cd, ids),
                c \in CommandChoices(MarkName(NewMarkId(ids)))}

\* mutate_command, the branch that deletes the command at address[0]
DeleteCommand(cd, ids, at) ==
    LET command == cd[at + 1]
        popped == Pop(cd, at)
    IN  IF command[1] # "if" THEN Brain(popped, ids)
        ELSE IF MarkId(command[3]) \notin ids THEN Crashed(popped, ids)
        ELSE IF ~Contains(popped, <<"mrk", command[3]>>)
             THEN Crashed(popped, ids \ {MarkId(command[3])})
        ELSE Brain(Remove(popped, <<"mrk", command[3]>>),
                   ids \ {MarkId(command[3])})

\* mutate_command, the branch that inserts: index is computed, then
\* rand_command runs, then the insert
InsertCommand(cd, ids, at) ==
    {Brain(Insert(bc[1].code, index, bc[2]), bc[1].mark_ids) :
        index \in {at, at + 1}, bc \in rand_command(cd, ids)}

mutate_command(cd, ids, address) ==
    {DeleteCommand(cd, ids, address[1])} \cup InsertCommand(cd, ids, address[1])

\* elem[address[-1]] = new_elem, elem found by walking address[:-1]
RECURSIVE SetAt(_, _, _)
SetAt(elem, address, new_elem) ==
    IF Len(address) = 1 THEN [elem EXCEPT ![address[1] + 1] = new_elem]
    ELSE [elem EXCEPT ![address[1] + 1] = SetAt(@, Tail(address), new_elem)]

mutate_expression(cd, ids, address) ==
    {Brain(SetAt(cd, address, new_elem), ids) :
        new_elem \in rand_value \cup rand_operator}

\* mutate(): one element of flat_code is chosen and mutated
mutate(cd, ids) ==
    IF FlatCode(cd) = {} THEN {Brain(cd, ids)}
    ELSE UNION {IF site[1] = "cmd" THEN mutate_command(cd, ids, site[2])
                ELSE mutate_expression(cd, ids, site[2]) : site \in FlatCode(cd)}

(***************************************************************************)
(* SpecMut: GermBrain(STARTING_CODE, n), one mutate() call per step.        *)
(***************************************************************************)
MaxMutations == 2

InitMut ==
    /\ NoTank /\ NoRunner
    /\ code = <<>> /\ state = <<>> /\ calls = 0
    /\ regs = [RunEntry(<<>>) EXCEPT !.status = "idle"]
    /\ brain = Brain(STARTING_CODE, MarkIdsOf(STARTING_CODE))
    /\ mutations \in 0..MaxMutations

\* one pass of __init__'s "for i in range(mutations): self.mutate()"
Mutate ==
    /\ mutations > 0
    /\ ~brain.raised
    /\ brain' \in mutate(brain.code, brain.mark_ids)
    /\ mutations' = mutations - 1
    /\ UNCHANGED <<tankVars, runVars, runnerVars>>

NextMut == Mutate

SpecMut == InitMut /\ [][NextMut]_vars

(***************************************************************************)
(* The tank.  Sizes are scaled down; energies and stamina are fixed point   *)
(* (SCALE units to 1.0), rates are per thousand.                            *)
(***************************************************************************)
TANK_WIDTH == 5
TANK_HEIGHT == 2
GERM_VIEW_DIST == 2
\* range(-50, 51) of the view_locs scan
VIEW_SCAN == 50
\* TANK_WRAP = True
TANK_WRAP == TRUE

MAX_FOOD_DENSITY == 20
FOOD_GROWTH_RATE == 50
FOOD_ENERGY == 20000
MAX_GERM_ENERGY == 100000
INIT_GERM_ENERGY == 30000
GERM_ABSORB_RATE == 500
GERM_BASE_ABSORB == 5000
GERM_STAMINA == 10000
GERM_STAMINA_REGEN == 500
UPKEEP_COST == 500
BURST_COST == 1000
ATTACK_BASE_COST == 1000
ATTACK_POWER_COST == 500
BIRTH_COST == 10000
\* for i in range(1000): the probes of one regrowth
REGROW_PROBES == 1000
\* sqrt(2), the cost of a diagonal move
SQRT_2 == 1414

None == [none |-> TRUE]
Cells == (0..(TANK_WIDTH - 1)) \X (0..(TANK_HEIGHT - 1))

\* a Python list index: negative indices count from the end
PyIndex(i, n) == IF i < 0 THEN i + n ELSE i
\* self.tank[x][y]
TankAt(tk, x, y) == tk[<<PyIndex(x, TANK_WIDTH), PyIndex(y, TANK_HEIGHT)>>]

\* a world is [tank, objects, new_germs, ents, food_count, raised]; raised
\* is an exception on its way out of update()
World(tk, objs, born, es, fc) ==
    [tank |-> tk, objects |-> objs, new_germs |-> born, ents |-> es,
     food_count |-> fc, raised |-> FALSE]

IsGerm(e) == e.brain # None

Germ(br, x, y) ==
    [brain |-> br, alive |-> TRUE, x |-> x, y |-> y,
     energy |-> INIT_GERM_ENERGY, stamina |-> GERM_STAMINA,
     success |-> TRUE, burst |-> FALSE, pain |-> 0]
Food(x, y) == [brain |-> None, alive |-> TRUE, x |-> x, y |-> y]

\* a reference not in use
NewRef(es) == CHOOSE n \in 1..(Cardinality(DOMAIN es) + 1) :
                 n \notin DOMAIN es /\ \A k \in 1..(n - 1) : k \in DOMAIN es

\* es with the new dict e under reference id
WithEnt(es, id, e) == [k \in DOMAIN es \cup {id} |-> IF k = id THEN e ELSE es[k]]

\* the lines of add_germ after the occupancy test
add_germ_unchecked(w, x, y, germ_brain) ==
    LET id == NewRef(w.ents)
        germ == IF germ_brain # None THEN Germ(germ_brain, x, y) ELSE Food(x, y)
    IN  [w EXCEPT !.ents = WithEnt(@, id, germ),
                  !.tank[<<x, y>>] = id,
                  !.food_count = IF germ_brain # None THEN @ ELSE @ + 1]

\* add_germ: the world after, the new reference is NewRef(w.ents)
add_germ(w, x, y, germ_brain) ==
    IF TankAt(w.tank, x, y) # 0 THEN [w EXCEPT !.raised = TRUE]
    ELSE add_germ_unchecked(w, x, y, germ_brain)

\* the == of two entity dicts: a brain is equal to itself only
DictEq(es, a, b) ==
    IF IsGerm(es[a]) \/ IsGerm(es[b]) THEN a = b ELSE es[a] = es[b]

\* kill_germ without the assignment that clears the grid cell
kill_germ_keep_cell(w, germ) ==
    LET at == CHOOSE i \in 1..Len(w.objects) :
                  /\ DictEq(w.ents, w.objects[i], germ)
                  /\ \A j \in 1..(i - 1) : ~DictEq(w.ents, w.objects[j], germ)
    IN  [w EXCEPT !.food_count = IF IsGerm(w.ents[germ]) THEN @ ELSE @ - 1,
                  !.objects = Pop(@, at - 1)]

\* kill_germ
kill_germ(w, germ) ==
    LET at == CHOOSE i \in 1..Len(w.objects) :
                  /\ DictEq(w.ents, w.objects[i], germ)
                  /\ \A j \in 1..(i - 1) : ~DictEq(w.ents, w.objects[j], germ)
        gone == w.objects[at]
    IN  [w EXCEPT !.food_count = IF IsGerm(w.ents[germ]) THEN @ ELSE @ - 1,
                  !.objects = Pop(@, at - 1),
                  !.tank[<<w.ents[germ].x, w.ents[germ].y>>] = 0,
                  !.ents = [k \in DOMAIN @ \ {gone} |-> @[k]]]

\* get_relative_loc: <<-1, -1>> outside the tank
get_relative_loc(x, y, dx, dy) ==
    LET new_x == IF TANK_WRAP
                 THEN IF x + dx >= TANK_WIDTH THEN x + dx - TANK_WIDTH
                      ELSE IF x + dx < 0 THEN x + dx + TANK_WIDTH
                      ELSE x + dx
                 ELSE x + dx
        new_y == y + dy
    IN  IF ~TANK_WRAP /\ (new_x >= TANK_WIDTH \/ new_x < 0) THEN <<-1, -1>>
        ELSE IF new_y >= TANK_HEIGHT \/ new_y < 0 THEN <<-1, -1>>
        ELSE <<new_x, new_y>>

\* the order of sorted() with key=itemgetter(0): by (i, j), distance ignored
ViewLessByOffset(a, b) == a[1] < b[1] \/ (a[1] = b[1] /\ a[2] < b[2])

\* the order of sorted(view_locs_dist, key=itemgetter(1, 0)): by distance,
\* ties by (i, j)
ViewLess(a, b) ==
    LET da == a[1] * a[1] + a[2] * a[2]
        db == b[1] * b[1] + b[2] * b[2]
    IN  \/ da < db
        \/ da = db /\ a[1] < b[1]
        \/ da = db /\ a[1] = b[1] /\ a[2] < b[2]

RECURSIVE SortedView(_)
SortedView(S) ==
    IF S = {} THEN <<>>
    ELSE LET m == CHOOSE a \in S : \A b \in S \ {a} : ViewLess(a, b)
         IN  <<m>> \o SortedView(S \ {m})

\* view_locs: the offsets within GERM_VIEW_DIST, near to far
view_locs ==
    LET reach == Min(VIEW_SCAN, GERM_VIEW_DIST)
    IN
    SortedView({ij \in (-reach..reach) \X (-reach..reach) :
                   /\ ~(ij[1] = 0 /\ ij[2] = 0)
                   /\ ij[1] * ij[1] + ij[2] * ij[2] <= GERM_VIEW_DIST * GERM_VIEW_DIST})

\* a get_obj that does not look at the alive flag
get_obj_any(w, x, y, dx, dy) ==
    LET tgt == get_relative_loc(x, y, dx, dy)
        cell == TankAt(w.tank, tgt[1], tgt[2])
    IN  IF tgt[1] # -1 /\ cell # 0
        THEN Seen(tgt[1] - x, tgt[2] - y, ~IsGerm(w.ents[cell]))
        ELSE None

\* get_obj of get_view: what is seen at one offset, None for nothing
get_obj(w, x, y, dx, dy) ==
    LET tgt == get_relative_loc(x, y, dx, dy)
        cell == TankAt(w.tank, tgt[1], tgt[2])
    IN  IF tgt[1] # -1 /\ cell # 0 /\ w.ents[cell].alive
        THEN Seen(tgt[1] - x, tgt[2] - y, ~IsGerm(w.ents[cell]))
        ELSE None

get_view(w, x, y) ==
    LET objs == [k \in 1..Len(view_locs) |->
                    get_obj(w, x, y, view_locs[k][1], view_locs[k][2])]
        IsSeenGerm(o) == o # None /\ ~o.is_food
        IsSeenFood(o) == o # None /\ o.is_food
    IN  [germs |-> SelectSeq(objs, IsSeenGerm), food |-> SelectSeq(objs, IsSeenFood)]

\* the 8 neighbours, in the order of the nested loops over [-1, 0, 1]
Neighbours ==
    << <<-1, -1>>, <<-1, 0>>, <<-1, 1>>, <<0, -1>>, <<0, 1>>,
       <<1, -1>>, <<1, 0>>, <<1, 1>> >>

\* get_birth_loc: the free neighbour nearest (Manhattan) to the request,
\* ties in the order of Neighbours (sorted() is stable)
get_birth_loc(w, x, y, dx, dy) ==
    LET d(k) == Abs(dx - Neighbours[k][1]) + Abs(dy - Neighbours[k][2])
        Free(k) == LET loc == get_relative_loc(x, y, Neighbours[k][1], Neighbours[k][2])
                   IN  loc[1] # -1 /\ TankAt(w.tank, loc[1], loc[2]) = 0
        free == {k \in 1..8 : Free(k)}
    IN  IF free = {} THEN <<-1, -1>>
        ELSE LET k == CHOOSE k \in free :
                         \A j \in free \ {k} : d(k) < d(j) \/ (d(k) = d(j) /\ k < j)
             IN  get_relative_loc(x, y, Neighbours[k][1], Neighbours[k][2])

\* dine: the loop over the neighbours, from the k-th on
RECURSIVE DineFrom(_, _, _)
DineFrom(w, germ, k) ==
    IF k > Len(Neighbours) THEN w
    ELSE LET tgt == get_relative_loc(w.ents[germ].x, w.ents[germ].y,
                                     Neighbours[k][1], Neighbours[k][2])
             target == TankAt(w.tank, tgt[1], tgt[2])
         IN  IF target # 0 /\ ~IsGerm(w.ents[target]) /\ w.ents[target].alive
             THEN DineFrom([w EXCEPT !.ents[germ].energy = @ + FOOD_ENERGY,
                                     !.ents[target].alive = FALSE], germ, k + 1)
             ELSE DineFrom(w, germ, k + 1)

\* a dine() that finds nothing to eat
dine_nothing(w, germ) == w

dine(w, germ) == DineFrom(w, germ, 1)

\* the brain object: to_dict keeps code and memory
GermBrain(cd, mem, ids) == [code |-> cd, memory |-> mem, mark_ids |-> ids]

\* sample of GermBrain(parent_code, random_mutations()): no mutation, or one
\* that deletes the first command
BirthBrains(parent_code) ==
    LET ids == MarkIdsOf(parent_code)
        zeros == [i \in 1..MEMORY_SIZE |-> 0]
        sites == {site[2][1] : site \in {f \in FlatCode(parent_code) : f[1] = "cmd"}}
        first == CHOOSE a \in sites : \A b \in sites : a <= b
        one == DeleteCommand(parent_code, ids, first)
    IN  {GermBrain(parent_code, zeros, ids)}
            \cup (IF sites = {} \/ one.raised THEN {}
                  ELSE {GermBrain(one.code, zeros, one.mark_ids)})

\* UPKEEP_COST * (0.1 + 0.9 * (float(germ['y']) / TANK_HEIGHT))
Upkeep(y) == (UPKEEP_COST * (100 * TANK_HEIGHT + 900 * y)) \div (1000 * TANK_HEIGHT)
\* 1.0 - 0.9 * (float(germ['y']) / TANK_HEIGHT)
Brightness(y) == SCALE - (900 * y) \div TANK_HEIGHT
\* sqrt(request['x'] ** 2 + request['y'] ** 2)
MoveCost(dx, dy) ==
    CASE dx * dx + dy * dy = 0 -> 0
      [] dx * dx + dy * dy = 1 -> SCALE
      [] dx * dx + dy * dy = 2 -> SQRT_2
\* (target['energy'] - GERM_BASE_ABSORB) * GERM_ABSORB_RATE + GERM_BASE_ABSORB
Absorbed(energy) ==
    ((energy - GERM_BASE_ABSORB) * GERM_ABSORB_RATE) \div 1000 + GERM_BASE_ABSORB
\* ATTACK_BASE_COST + ATTACK_POWER_COST * float(request['power'])
AttackCost(power) == ATTACK_BASE_COST + ATTACK_POWER_COST * power

\* an energy that is not clamped
NoClamp(energy) == energy

\* min(germ['energy'], MAX_GERM_ENERGY)
ClampEnergy(energy) == Min(energy, MAX_GERM_ENERGY)

\* a birth test that forgets the energy
CanBirthAnyEnergy(loc, energy) == loc[1] # -1

\* the test of the birth branch, negated
CanBirth(loc, energy) ==
    ~(loc[1] = -1 \/ energy < INIT_GERM_ENERGY + BIRTH_COST + SCALE)

\* a move test that does not look at the cell
CanMoveAnywhere(tk, loc) == loc[1] # -1

\* the test of the move branch (and of the food drift), negated
CanMove(tk, loc) == ~(loc[1] = -1 \/ TankAt(tk, loc[1], loc[2]) # 0)

\* the burst lines of process_request
PayBurst(w, request, germ) ==
    IF "burst" \in request.keys /\ request.burst
    THEN [w EXCEPT !.ents[germ].energy = @ - BURST_COST, !.ents[germ].burst = TRUE]
    ELSE [w EXCEPT !.ents[germ].burst = FALSE]

\* the attack branch
Attack(w, request, germ, x, y) ==
    LET tgt == get_relative_loc(x, y, request.x, request.y)
        cost == AttackCost(request.power)
        target == TankAt(w.tank, tgt[1], tgt[2])
    IN  IF target = 0 \/ ~w.ents[target].alive \/ request.power = 0
           \/ cost > w.ents[germ].energy
        THEN [w EXCEPT !.ents[germ].success = FALSE]
        ELSE
        LET w1 == [w EXCEPT !.ents[germ].success = TRUE,
                            !.ents[germ].energy = @ - cost]
        IN  \* target['stamina'] of a food particle: KeyError
            IF ~IsGerm(w1.ents[target]) THEN [w1 EXCEPT !.raised = TRUE]
            ELSE
            LET w2 == [w1 EXCEPT !.ents[target].stamina = @ - request.power * SCALE,
                                 !.ents[target].pain = @ + request.power]
            IN  IF w2.ents[target].stamina <= 0
                THEN [[w2 EXCEPT !.ents[germ].energy =
                                     @ + Absorbed(w2.ents[target].energy)]
                          EXCEPT !.ents[target].alive = FALSE]
                ELSE w2

\* a birth branch that puts the newborn straight into the registry
BirthIntoRegistry(w, request, germ, x, y, child) ==
    LET loc == get_birth_loc(w, x, y, request.x, request.y)
    IN  IF ~CanBirth(loc, w.ents[germ].energy)
        THEN [w EXCEPT !.ents[germ].success = FALSE]
        ELSE [add_germ([w EXCEPT !.ents[germ].success = TRUE,
                                 !.ents[germ].energy =
                                     @ - (INIT_GERM_ENERGY + BIRTH_COST)],
                       loc[1], loc[2], child)
                 EXCEPT !.objects = Append(@, NewRef(w.ents))]

\* the birth branch; child is the brain GermBrain(...) made
Birth(w, request, germ, x, y, child) ==
    LET loc == get_birth_loc(w, x, y, request.x, request.y)
    IN  IF ~CanBirth(loc, w.ents[germ].energy)
        THEN [w EXCEPT !.ents[germ].success = FALSE]
        ELSE LET w1 == [w EXCEPT !.ents[germ].success = TRUE,
                                 !.ents[germ].energy =
                                     @ - (INIT_GERM_ENERGY + BIRTH_COST)]
                 w2 == add_germ(w1, loc[1], loc[2], child)
             IN  IF w2.raised THEN w2
                 ELSE [w2 EXCEPT !.new_germs = Append(@, NewRef(w1.ents))]

\* the move branch
\* a move that does not empty the cell it leaves
MoveLeavesTrail(w, request, germ, x, y) ==
    LET loc == get_relative_loc(x, y, request.x, request.y)
    IN  IF ~CanMove(w.tank, loc)
        THEN [w EXCEPT !.ents[germ].success = FALSE]
        ELSE [w EXCEPT !.ents[germ].success = TRUE,
                       !.ents[germ].energy = @ - MoveCost(request.x, request.y),
                       !.ents[germ].x = loc[1],
                       !.ents[germ].y = loc[2],
                       !.tank[loc] = germ]

Move(w, request, germ, x, y) ==
    LET loc == get_relative_loc(x, y, request.x, request.y)
    IN  IF ~CanMove(w.tank, loc)
        THEN [w EXCEPT !.ents[germ].success = FALSE]
        ELSE [[w EXCEPT !.ents[germ].success = TRUE,
                        !.ents[germ].energy = @ - MoveCost(request.x, request.y),
                        !.ents[germ].x = loc[1],
                        !.ents[germ].y = loc[2],
                        !.tank[loc] = germ]
                 EXCEPT !.tank[<<x, y>>] = 0]

process_request(w, request, germ, x, y, child) ==
    LET w1 == PayBurst(w, request, germ)
    IN  IF "action" \notin request.keys
        THEN [w1 EXCEPT !.ents[germ].success = TRUE]
        ELSE CASE request.action = "halt" ->
                    [w1 EXCEPT !.ents[germ].success = FALSE,
                               !.ents[germ].energy = @ - SCALE]
               [] request.action = "move" -> Move(w1, request, germ, x, y)
               [] request.action = "birth" -> Birth(w1, request, germ, x, y, child)
               [] request.action = "attack" -> Attack(w1, request, germ, x, y)
               [] OTHER -> w1

\* the state dict update() hands to run()
Snapshot(w, germ) ==
    [energy |-> w.ents[germ].energy,
     brightness |-> Brightness(w.ents[germ].y),
     stamina |-> w.ents[germ].stamina,
     pain |-> w.ents[germ].pain,
     view |-> get_view(w, w.ents[germ].x, w.ents[germ].y),
     success |-> w.ents[germ].success]

\* the upkeep lines of update(), after the death roll: the germ dict
Metabolise(g) ==
    LET g1 == [g EXCEPT !.energy = @ - Upkeep(g.y),
                        !.stamina = Min(@ + GERM_STAMINA_REGEN, GERM_STAMINA)]
    IN  IF g1.energy <= 0 THEN [g1 EXCEPT !.alive = FALSE]
        ELSE [g1 EXCEPT !.energy = ClampEnergy(@)]

\* the lines after process_request: pain, energy bounds
AfterAction(g) ==
    LET g1 == [g EXCEPT !.pain = 0, !.alive = IF g.energy <= 0 THEN FALSE ELSE @]
    IN  [g1 EXCEPT !.energy = ClampEnergy(@)]

\* the lines after process_request returned w
Settle(w, r, germ) ==
    IF w.raised THEN [w |-> w, r |-> r]
    ELSE [w |-> [w EXCEPT !.ents[germ] = AfterAction(@)], r |-> r]

\* the lines after run() returned r: memory is the brain's own list
Respond(w, r, germ, child) ==
    IF r.status = "raised"
    THEN [w |-> [w EXCEPT !.ents[germ].brain.memory = r.memory, !.raised = TRUE],
          r |-> r]
    ELSE Settle(process_request([w EXCEPT !.ents[germ].brain.memory = r.memory],
                                r.result, germ, w.ents[germ].x, w.ents[germ].y,
                                child),
                r, germ)

\* the lines after dine() left w
Think(w, germ, child) ==
    Respond(w, run(w.ents[germ].brain.code, w.ents[germ].brain.memory,
                   Snapshot(w, germ)),
            germ, child)

\* "if not burst_turn or germ['burst']": dine, run, process_request and the
\* lines after.  [w, r]: the world after, and run()'s locals at its end
Act(w, germ, child) == Think(dine(w, germ), germ, child)

(***************************************************************************)
(* Construction, save and load.                                             *)
(***************************************************************************)
EmptyTank == [c \in Cells |-> 0]
EmptyWorld == World(EmptyTank, <<>>, <<>>, <<>>, 0)

\* GermBrain.to_dict, GermBrain.from_dict
to_dict(br) == [code |-> br.code, memory |-> br.memory]
from_dict_zeroed(d) == GermBrain(d.code, [i \in 1..Len(d.memory) |-> 0], MarkIdsOf(d.code))
from_dict(d) == GermBrain(d.code, d.memory, MarkIdsOf(d.code))

\* to_json: the list of dicts json.dumps writes
to_json(w) ==
    [i \in 1..Len(w.objects) |->
        LET obj == w.ents[w.objects[i]]
        IN  [obj EXCEPT !.brain = IF IsGerm(obj) THEN to_dict(@) ELSE None]]

\* GermTank(json_str): the loop over json.loads(json_str), from the k-th dict
RECURSIVE LoadFrom(_, _, _)
LoadFrom(w, doc, k) ==
    IF k > Len(doc) THEN w
    ELSE LET d == doc[k]
             obj == [d EXCEPT !.brain = IF d.brain # None THEN from_dict(@) ELSE None]
             id == NewRef(w.ents)
         IN  LoadFrom([w EXCEPT !.ents = WithEnt(@, id, obj),
                                !.tank[<<obj.x, obj.y>>] = id,
                                !.objects = Append(@, id)], doc, k + 1)

FoodIn(w) == {i \in 1..Len(w.objects) : ~IsGerm(w.ents[w.objects[i]])}

LoadTank(doc) ==
    LET w == LoadFrom(EmptyWorld, doc, 1)
    IN  [w EXCEPT !.food_count = Cardinality(FoodIn(w))]

\* GermTank(): locs is the set of random locations in the order the loop
\* meets them; from the k-th on, c = k - 1
RECURSIVE FreshFrom(_, _, _)
FreshFrom(w, locs, k) ==
    IF k > Len(locs) THEN w
    ELSE LET br == IF k - 1 < TANK_WIDTH
                   THEN GermBrain(STARTING_CODE, [i \in 1..MEMORY_SIZE |-> 0],
                                  MarkIdsOf(STARTING_CODE))
                   ELSE None
             w1 == add_germ(w, locs[k][1], locs[k][2], br)
         IN  FreshFrom([w1 EXCEPT !.objects = Append(@, NewRef(w.ents))], locs, k + 1)

FreshTank(locs) == FreshFrom([EmptyWorld EXCEPT !.food_count = TANK_WIDTH], locs, 1)

(***************************************************************************)
(* update(), split at the iterations of its for loop, at the               *)
(* reconciliation and at the food regrowth.                                 *)
(***************************************************************************)
MaxTicks == 2

Now == World(tank, objects, new_germs, ents, food_count)

Becomes(w) ==
    /\ tank' = w.tank
    /\ objects' = w.objects
    /\ new_germs' = w.new_germs
    /\ ents' = w.ents
    /\ food_count' = w.food_count

\* the entity the for loop is at
InLoop == pc = "iter" /\ idx < Len(objects)
Current == objects[idx + 1]
\* a test that lets every live germ act on a burst turn
ActsUnpaid(e) == e.alive /\ IsGerm(e)

Acts(e) == e.alive /\ IsGerm(e) /\ (~burst_turn \/ e.burst)

\* a caller calls update(burst_turn)
UpdateStart ==
    /\ pc = "idle"
    /\ ticks < MaxTicks
    /\ pc' = "iter"
    /\ idx' = 0
    /\ burst_turn' \in BOOLEAN
    /\ was_alive' = {id \in DOMAIN ents : ents[id].alive}
    /\ UNCHANGED <<tank, objects, new_germs, ents, food_count, ticks, runVars, mutVars, runnerVars>>

\* an iteration that does nothing: a dead entity, or on a burst turn a food
\* particle or a germ that has not paid for the burst
TurnSkip ==
    /\ InLoop
    /\ LET e == ents[Current]
       IN  ~e.alive \/ (burst_turn /\ ~(IsGerm(e) /\ e.burst))
    /\ idx' = idx + 1
    /\ UNCHANGED <<tank, objects, new_germs, ents, food_count, pc, burst_turn,
                   ticks, runVars, was_alive, mutVars, runnerVars>>

\* random() < DEATH_RATE
TurnDeathRoll ==
    /\ InLoop
    /\ Acts(ents[Current]) /\ ~burst_turn
    /\ ents' = [ents EXCEPT ![Current].alive = FALSE]
    /\ idx' = idx + 1
    /\ UNCHANGED <<tank, objects, new_germs, food_count, pc, burst_turn, ticks,
                   runVars, was_alive, mutVars, runnerVars>>

\* an iteration for a live germ: upkeep on a standard turn, then its action
TurnGerm ==
    /\ InLoop
    /\ Acts(ents[Current])
    /\ \E g \in {IF burst_turn THEN ents[Current] ELSE Metabolise(ents[Current])} :
         IF ~g.alive
         THEN /\ ents' = [ents EXCEPT ![Current] = g]
              /\ idx' = idx + 1
              /\ UNCHANGED <<tank, objects, new_germs, food_count, pc, runVars>>
         ELSE \E child \in BirthBrains(g.brain.code) :
                \E a \in {Act([Now EXCEPT !.ents[Current] = g], Current, child)} :
                   /\ Becomes(a.w)
                   /\ code' = g.brain.code
                   /\ state' = Snapshot(dine([Now EXCEPT !.ents[Current] = g], Current),
                                        Current)
                   /\ regs' = a.r
                   /\ calls' = calls
                   /\ IF a.w.raised
                      THEN pc' = "aborted" /\ idx' = idx
                      ELSE pc' = pc /\ idx' = idx + 1
    /\ UNCHANGED <<burst_turn, ticks, was_alive, mutVars, runnerVars>>

\* an iteration for a live food particle on a standard turn: it drifts
TurnFood ==
    /\ InLoop
    /\ ents[Current].alive /\ ~IsGerm(ents[Current]) /\ ~burst_turn
    /\ \E k \in 1..Len(Neighbours) :
         LET e == ents[Current]
             loc == get_relative_loc(e.x, e.y, Neighbours[k][1], Neighbours[k][2])
         IN  IF CanMove(tank, loc)
             THEN /\ ents' = [ents EXCEPT ![Current].x = loc[1], ![Current].y = loc[2]]
                  /\ tank' = [tank EXCEPT ![loc] = Current, ![<<e.x, e.y>>] = 0]
             ELSE UNCHANGED <<ents, tank>>
    /\ idx' = idx + 1
    /\ UNCHANGED <<objects, new_germs, food_count, pc, burst_turn, ticks, runVars,
                   was_alive, mutVars, runnerVars>>

\* "for i in to_kill: self.kill_germ(i)", from the k-th of to_kill
RECURSIVE KillAll(_, _, _)
KillAll(w, to_kill, k) ==
    IF k > Len(to_kill) THEN w ELSE KillAll(kill_germ(w, to_kill[k]), to_kill, k + 1)

\* to_kill = [i for i in self.objects if not i['alive']]
ToKill(w) ==
    LET IsDead(id) == ~w.ents[id].alive
    IN  SelectSeq(w.objects, IsDead)

\* the lines after the for loop, to the food regrowth
Reconciled(w) ==
    LET w1 == KillAll(w, ToKill(w), 1)
    IN  [w1 EXCEPT !.objects = @ \o w.new_germs, !.new_germs = <<>>]

Reconcile ==
    /\ pc = "iter"
    /\ idx = Len(objects)
    /\ Becomes(Reconciled(Now))
    /\ pc' = "regrow"
    /\ was_alive' = {}
    /\ UNCHANGED <<idx, burst_turn, ticks, runVars, mutVars, runnerVars>>

\* a regrowth without the test of food_count against max_food
BelowMaxFoodAlways(fc) == TRUE

\* food_count < max_food
BelowMaxFood(fc) == fc * 1000 < TANK_WIDTH * TANK_HEIGHT * MAX_FOOD_DENSITY

\* the c at which "if c >= to_add: break" leaves the loop
RegrowTarget(fc) ==
    LET max_food == TANK_WIDTH * TANK_HEIGHT * MAX_FOOD_DENSITY
        to_add == Min(FOOD_GROWTH_RATE * max_food, (max_food - fc * 1000) * 1000)
        enough == {c \in 1..REGROW_PROBES : c * 1000000 >= to_add}
    IN  IF enough = {} THEN REGROW_PROBES
        ELSE CHOOSE c \in enough : \A d \in enough : c <= d

\* the cells the probes can fill, in order: at most n, each empty when probed
RECURSIVE Placements(_, _)
Placements(empty, n) ==
    IF n = 0 THEN {<<>>}
    ELSE {<<>>} \cup UNION {{<<c>> \o rest : rest \in Placements(empty \ {c}, n - 1)} :
                              c \in empty}

\* "self.objects.append(self.add_germ(x, y, None))" for each of cells
RECURSIVE Regrown(_, _, _)
Regrown(w, cells, k) ==
    IF k > Len(cells) THEN w
    ELSE LET w1 == add_germ(w, cells[k][1], cells[k][2], None)
         IN  Regrown([w1 EXCEPT !.objects = Append(@, NewRef(w.ents))], cells, k + 1)

\* the food regrowth; update() returns
RegrowFood ==
    /\ pc = "regrow"
    /\ IF BelowMaxFood(food_count)
       THEN \E cells \in Placements({c \in Cells : tank[c] = 0},
                                    Min(RegrowTarget(food_count), REGROW_PROBES)) :
               Becomes(Regrown(Now, cells, 1))
       ELSE UNCHANGED <<tank, objects, new_germs, ents, food_count>>
    /\ pc' = "idle"
    /\ ticks' = ticks + 1
    /\ UNCHANGED <<idx, burst_turn, runVars, was_alive, mutVars, runnerVars>>

\* the runner closes and is started again: autosave.json is written by
\* to_json() and read back by GermTank(json_str)
Reload ==
    /\ pc = "idle"
    /\ ticks > 0
    /\ Becomes(LoadTank(to_json(Now)))
    /\ UNCHANGED <<pc, idx, burst_turn, ticks, runVars, was_alive, mutVars, runnerVars>>

\* the dicts of a save file
SavedGerm(cd, mem, x, y, energy, stamina) ==
    [brain |-> [code |-> cd, memory |-> mem], alive |-> TRUE, x |-> x, y |-> y,
     energy |-> energy, stamina |-> stamina, success |-> TRUE, burst |-> FALSE,
     pain |-> 0]
SavedFood(x, y) == [brain |-> None, alive |-> TRUE, x |-> x, y |-> y]

Zeros == [i \in 1..MEMORY_SIZE |-> 0]

\* codes of the saved germs
BreederCode == << <<"ax", IntLit(1)>>, <<"bir">> >>
HunterCode ==
    << <<"pwr", IntLit(5)>>, <<"ax", <<"gix", IntLit(0)>>>>,
       <<"ay", <<"giy", IntLit(0)>>>>, <<"att">> >>
GrazerCode ==
    << <<"set", IntLit(0), <<"+", <<"m", IntLit(0)>>, IntLit(1)>>>>, <<"ret">> >>
ForagerCode ==
    << <<"pwr", IntLit(3)>>, <<"ax", <<"fix", IntLit(0)>>>>,
       <<"ay", <<"fiy", IntLit(0)>>>>, <<"att">> >>
BursterCode == << <<"bst", IntLit(1)>>, <<"ax", IntLit(1)>>, <<"mv">> >>
LooperCode == << <<"mrk", MarkName(0)>>, <<"if", IntLit(0), MarkName(0)>> >>
RestCode == << <<"ret">> >>
BrokenCode == << <<"nop">>, <<"mv">> >>

\* sample of the save files a tank is loaded from
Nursery ==
    << SavedGerm(BreederCode, Zeros, 1, 0, 50 * SCALE, GERM_STAMINA),
       SavedGerm(HunterCode, Zeros, 3, 0, 40 * SCALE, GERM_STAMINA),
       SavedGerm(HunterCode, Zeros, 2, 1, 40 * SCALE, GERM_STAMINA) >>
Pond ==
    << SavedGerm(GrazerCode, Zeros, 0, 1, 95 * SCALE, GERM_STAMINA),
       SavedFood(0, 0),
       SavedFood(1, 1),
       SavedGerm(STARTING_CODE, Zeros, 3, 0, 75 * SCALE, GERM_STAMINA) >>
Rapids ==
    << SavedGerm(BursterCode, Zeros, 0, 0, 30 * SCALE, GERM_STAMINA),
       SavedGerm(LooperCode, Zeros, 2, 1, 30 * SCALE, GERM_STAMINA),
       SavedGerm(BreederCode, Zeros, 4, 0, 40 * SCALE + 500, GERM_STAMINA),
       SavedGerm(RestCode, Zeros, 3, 1, 40, GERM_STAMINA) >>
Ambush ==
    << SavedGerm(HunterCode, Zeros, 0, 0, 40 * SCALE, GERM_STAMINA),
       SavedGerm(RestCode, Zeros, 1, 0, 20 * SCALE, 3 * SCALE) >>
Orchard ==
    << SavedGerm(ForagerCode, Zeros, 2, 0, 40 * SCALE, GERM_STAMINA),
       SavedFood(1, 0),
       SavedFood(0, 0) >>
Damaged ==
    << SavedGerm(RestCode, Zeros, 2, 0, 30 * SCALE, GERM_STAMINA),
       SavedGerm(BrokenCode, Zeros, 0, 0, 30 * SCALE, GERM_STAMINA) >>

SavedWorlds == {Nursery, Pond, Rapids, Ambush, Orchard, Damaged}

\* sample of the deduplicated random locations of a new tank, in set order
FreshLocs ==
    { << <<0, 0>>, <<2, 1>> >>,
      << <<0, 0>>, <<2, 0>>, <<4, 1>>, <<1, 1>>, <<3, 0>>, <<0, 1>> >> }

\* the run() variables before the first call
NoRun ==
    /\ code = <<>>
    /\ state = <<>>
    /\ regs = [RunEntry(<<>>) EXCEPT !.status = "idle"]
    /\ calls = 0

Init ==
    /\ \E w \in {LoadTank(doc) : doc \in SavedWorlds}
                  \cup {FreshTank(locs) : locs \in FreshLocs} :
          /\ tank = w.tank
          /\ objects = w.objects
          /\ new_germs = w.new_germs
          /\ ents = w.ents
          /\ food_count = w.food_count
    /\ pc = "idle" /\ idx = 0 /\ burst_turn = FALSE /\ ticks = 0
    /\ was_alive = {}
    /\ NoRun
    /\ NoMut /\ NoRunner

Next ==
    \/ UpdateStart
    \/ TurnSkip
    \/ TurnDeathRoll
    \/ TurnGerm
    \/ TurnFood
    \/ Reconcile
    \/ RegrowFood
    \/ Reload

Spec == Init /\ [][Next]_vars

(***************************************************************************)
(* SpecRunner: HeadlessRunner and VisualRunner.  TankRunner.run is the      *)
(* main thread of the headless runner and a second thread of the visual     *)
(* one, whose main thread sits in root.mainloop() and runs the Tk callbacks *)
(* (close on WM_DELETE_WINDOW, toggle_pause on <space>).  A stop signal     *)
(* runs stop_execution between any two steps.  update(), get_pixels() and   *)
(* to_json() are not atomic: each is entered in one step and left in        *)
(* another; pc is "iter" while update() is in progress.                     *)
(***************************************************************************)
MaxFrames == 2

Runner(mode) ==
    [mode |-> mode,
     stop_requested |-> FALSE,
     pause |-> FALSE,
     frames_executed |-> 0,
     window |-> IF mode = "visual" THEN "open" ELSE "none",
     loop |-> "test",
     main |-> IF mode = "visual" THEN "mainloop" ELSE "run"]

\* the tank as the runner sees it: only whether update() is in progress
RunnerFrame ==
    <<tank, objects, new_germs, ents, food_count, idx, burst_turn, ticks, was_alive,
      runVars, mutVars>>

\* main(): HeadlessRunner() with -H, VisualRunner(root) otherwise
InitRunner ==
    /\ NoTank /\ NoRun /\ NoMut
    /\ runner \in {Runner("headless"), Runner("visual")}

\* the process is running: the visual runner's main thread has not returned
ProcessUp == runner.main # "exited"

\* "while not self.stop_requested:" and "if not self.pause:"
LoopTest ==
    /\ ProcessUp /\ runner.loop = "test"
    /\ IF runner.stop_requested THEN runner' = [runner EXCEPT !.loop = "close"]
       ELSE IF runner.pause THEN runner' = runner
       ELSE /\ runner.frames_executed < MaxFrames
            /\ runner' = [runner EXCEPT !.loop = "do_frame"]
    /\ UNCHANGED <<pc, RunnerFrame>>

\* do_frame: self.tank.update(False) is entered
UpdateBegin ==
    /\ ProcessUp /\ runner.loop = "do_frame"
    /\ pc' = "iter"
    /\ runner' = [runner EXCEPT !.loop = "in_update"]
    /\ UNCHANGED RunnerFrame

\* update() returns; the visual runner goes on to paint
UpdateEnd ==
    /\ ProcessUp /\ runner.loop = "in_update"
    /\ pc' = "idle"
    /\ runner' = [runner EXCEPT !.loop = IF runner.mode = "visual"
                                         THEN "in_get_pixels" ELSE "counted"]
    /\ UNCHANGED RunnerFrame

\* paint(self.photo, self.tank.get_pixels(), self.scale): get_pixels()
\* returns, and paint raises TclError if the window is gone
Paint ==
    /\ ProcessUp /\ runner.loop = "in_get_pixels"
    /\ runner' = [runner EXCEPT !.loop = "counted",
                                !.stop_requested = @ \/ runner.window = "destroyed"]
    /\ UNCHANGED <<pc, RunnerFrame>>

\* self.frames_executed += 1
FrameCounted ==
    /\ ProcessUp /\ runner.loop = "counted"
    /\ runner' = [runner EXCEPT !.loop = "test", !.frames_executed = @ + 1]
    /\ UNCHANGED <<pc, RunnerFrame>>

\* self.close() after the loop: root.destroy() for the visual runner
\* (TclError if already destroyed), then to_json() is entered
RunnerClose ==
    /\ ProcessUp /\ runner.loop = "close"
    /\ runner' = [runner EXCEPT
                     !.loop = "in_to_json",
                     !.window = IF runner.mode = "visual" THEN "destroyed" ELSE @,
                     !.stop_requested = @ \/ runner.window = "destroyed"]
    /\ UNCHANGED <<pc, RunnerFrame>>

\* to_json() returns and autosave.json is written; run() returns
RunnerSaved ==
    /\ ProcessUp /\ runner.loop = "in_to_json"
    /\ runner' = [runner EXCEPT !.loop = "done"]
    /\ UNCHANGED <<pc, RunnerFrame>>

\* stop_execution, on SIGINT or SIGTERM
StopSignal ==
    /\ ProcessUp /\ runner.loop # "done"
    /\ ~runner.stop_requested
    /\ runner' = [runner EXCEPT !.stop_requested = TRUE]
    /\ UNCHANGED <<pc, RunnerFrame>>

\* toggle_pause, bound to <space>
TogglePause ==
    /\ runner.main = "mainloop" /\ runner.window = "open"
    /\ runner' = [runner EXCEPT !.pause = ~@]
    /\ UNCHANGED <<pc, RunnerFrame>>

\* VisualRunner.close as the WM_DELETE_WINDOW callback, on the main thread:
\* root.destroy(), then to_json() is entered
WindowClose ==
    /\ runner.main = "mainloop" /\ runner.window = "open"
    /\ runner' = [runner EXCEPT !.window = "destroyed", !.main = "in_to_json"]
    /\ UNCHANGED <<pc, RunnerFrame>>

\* the callback's to_json() returns, mainloop() and main() return and the
\* process ends, the run() thread with it
MainSaved ==
    /\ runner.main = "in_to_json"
    /\ runner' = [runner EXCEPT !.main = "exited"]
    /\ UNCHANGED <<pc, RunnerFrame>>

NextRunner ==
    \/ LoopTest
    \/ UpdateBegin
    \/ UpdateEnd
    \/ Paint
    \/ FrameCounted
    \/ RunnerClose
    \/ RunnerSaved
    \/ StopSignal
    \/ TogglePause
    \/ WindowClose
    \/ MainSaved

SpecRunner == InitRunner /\ [][NextRunner]_vars

Marks(cd) == {i \in 1..Len(cd) : cd[i][1] = "mrk"}
Branches(cd) == {i \in 1..Len(cd) : cd[i][1] = "if"}

(***************************************************************************)
(* C3: in any code reached from STARTING_CODE by mutate() calls, every 'if' *)
(* names exactly one 'mrk' of the same code, and no two 'mrk' carry the     *)
(* same name (and no mutate() call raised on the way).                      *)
(***************************************************************************)
C3_MarksResolve ==
    /\ ~brain.raised
    /\ \A i \in Branches(brain.code) :
          Cardinality({j \in Marks(brain.code) :
                          brain.code[j][2] = brain.code[i][3]}) = 1
    /\ \A i, j \in Marks(brain.code) :
          brain.code[i][2] = brain.code[j][2] => i = j

\* the first 'if' was deleted with its mark, and a new 'if' took the freed id
C3_Witness ==
    /\ mutations = 0
    /\ Cardinality(Branches(brain.code)) = 1
    /\ \A i \in Branches(brain.code) :
          brain.code[i][2] \in rand_value /\ brain.code[i][3] = MarkName(0)
    /\ brain.mark_ids = {0, 1}

Terminal == {"mv", "bir", "att", "ret"}
NoTerminal(cd) == \A i \in 1..Len(cd) : cd[i][1] \notin Terminal

\* the instruction run() is about to execute, when there is one
AtInstruction == regs.status = "running" /\ BudgetLeft(regs.executed)
                 /\ regs.head < Len(code)
CurrentIns == code[regs.head + 1]

(***************************************************************************)
(* C4 (as stated): a code with no terminal instruction, of any length >= 1, *)
(* returns the Halt action after exactly MAX_EXECUTIONS steps.              *)
(***************************************************************************)
C4_AlwaysHalts ==
    (Len(code) >= 1 /\ NoTerminal(code) /\ regs.status = "returned")
        => (regs.result = HaltRequest /\ regs.executed = MAX_EXECUTIONS)

(***************************************************************************)
(* C4 (amended): a code with no terminal instruction returns either the     *)
(* empty action, at the step where head has passed the end of the code, or  *)
(* the Halt action after exactly MAX_EXECUTIONS steps; it returns nothing   *)
(* else.                                                                    *)
(***************************************************************************)
C4_HaltOrRunsOff ==
    (Len(code) >= 1 /\ NoTerminal(code) /\ regs.status = "returned")
        => \/ regs.result = HaltRequest /\ regs.executed = MAX_EXECUTIONS
           \/ regs.result = EmptyRequest /\ regs.head >= Len(code)
                /\ regs.executed <= MAX_EXECUTIONS

C4_Witness ==
    /\ Len(code) >= 1 /\ NoTerminal(code) /\ regs.status = "returned"
    /\ regs.result = HaltRequest /\ regs.cmd = "if"

(***************************************************************************)
(* C9 (as stated): when the condition of an 'if' evaluates true, head jumps *)
(* to the position of the matching mark; when it evaluates false, head      *)
(* advances by 1.                                                           *)
(***************************************************************************)
C9_BranchIfTrue ==
    [][(AtInstruction /\ CurrentIns[1] = "if" /\ regs'.status = "running")
        => LET cond == resolve_value(CurrentIns[2], regs.memory, state).v
           IN  /\ cond # 0 => regs'.head = FindMark(code, CurrentIns[3])
               /\ cond = 0 => regs'.head = regs.head + 1]_vars

(***************************************************************************)
(* C9 (amended): when the condition of an 'if' evaluates false, head jumps  *)
(* to the matching mark and execution resumes at the instruction after it   *)
(* (head = mark position + 1); when it evaluates true, head advances by 1.  *)
(***************************************************************************)
C9_BranchIfFalse ==
    [][(AtInstruction /\ CurrentIns[1] = "if" /\ regs'.status = "running")
        => LET cond == resolve_value(CurrentIns[2], regs.memory, state).v
           IN  /\ cond = 0 => regs'.head = FindMark(code, CurrentIns[3]) + 1
               /\ cond # 0 => regs'.head = regs.head + 1]_vars

\* an 'if' has just branched forward over two instructions
C9_Witness ==
    /\ regs.status = "running" /\ regs.cmd = "if" /\ regs.expr = 0
    /\ regs.executed = 3 /\ regs.head = 6

(***************************************************************************)
(* Claims about the tank (Spec).                                            *)
(***************************************************************************)
\* the germ dicts of the registry
Registered == {objects[i] : i \in 1..Len(objects)}
Queued == {new_germs[i] : i \in 1..Len(new_germs)}

\* a step of TurnGerm in which the germ takes its action (it was not starved
\* by the upkeep)
Acting ==
    /\ TurnGerm
    /\ burst_turn \/ Metabolise(ents[Current]).alive

\* C1: between ticks, every organism marked alive has
\* 0 <= energy <= MAX_GERM_ENERGY and 0 <= stamina <= GERM_STAMINA.
C1_EnergyStaminaBounds ==
    pc = "idle" =>
        \A id \in Registered :
            (IsGerm(ents[id]) /\ ents[id].alive) =>
                /\ 0 <= ents[id].energy /\ ents[id].energy <= MAX_GERM_ENERGY
                /\ 0 <= ents[id].stamina /\ ents[id].stamina <= GERM_STAMINA

\* a tick has completed in which an organism ran its code, ate, and had its
\* energy cut back to the maximum
C1_Witness ==
    /\ pc = "idle" /\ ticks > 0
    /\ \E id \in Registered :
          /\ IsGerm(ents[id]) /\ ents[id].alive
          /\ ents[id].energy = MAX_GERM_ENERGY
          /\ ents[id].brain.memory # Zeros

\* C2: in every state, also in the middle of a tick, no two live entities
\* report the same (x, y).
C2_OnePerCell ==
    \A a, b \in DOMAIN ents :
        (a # b /\ ents[a].alive /\ ents[b].alive) =>
            <<ents[a].x, ents[a].y>> # <<ents[b].x, ents[b].y>>

\* the middle of a tick, just after a birth: the newborn is in the grid and
\* in the queue
C2_Witness ==
    /\ pc = "iter"
    /\ \E n \in Queued : ents[n].alive
    /\ regs.status = "returned" /\ regs.result.action = "birth"

\* C5 as stated: an interpreter fault never aborts update().
C5_FaultNeverAborts == ~(pc = "aborted" /\ regs.status = "raised")

\* C6 as stated: at the end of a tick no organism whose stamina an attack
\* drove to <= 0 is left in the registry or in the grid.
C6_KilledTargetRemoved ==
    pc = "idle" =>
        /\ \A id \in Registered : IsGerm(ents[id]) => ents[id].stamina > 0
        /\ \A c \in Cells :
              (tank[c] # 0 /\ IsGerm(ents[tank[c]])) => ents[tank[c]].stamina > 0

\* the energy the parent has when the birth branch tests it
EnergyAtBirthTest ==
    state'.energy - (IF regs'.result.burst THEN BURST_COST ELSE 0)

\* C7: a birth request resolved while the parent's energy is below
\* INIT_GERM_ENERGY + BIRTH_COST + 1 leaves the parent unsuccessful, places
\* nothing in the grid, queues nothing, and spends no birth energy.
C7_NoBirthBelowThreshold ==
    [][(/\ Acting
        /\ regs'.status = "returned"
        /\ regs'.result.action = "birth"
        /\ EnergyAtBirthTest < INIT_GERM_ENERGY + BIRTH_COST + SCALE)
       => /\ ~ents'[Current].success
          /\ new_germs' = new_germs
          /\ tank' = tank
          /\ DOMAIN ents' = DOMAIN ents
          /\ ents'[Current].energy = EnergyAtBirthTest]_vars

\* an organism has just asked for a birth with less than the threshold but
\* with a free cell beside it, and was refused
C7_Witness ==
    /\ pc = "iter" /\ idx > 0
    /\ regs.status = "returned" /\ regs.result.action = "birth"
    /\ state.energy < INIT_GERM_ENERGY + BIRTH_COST + SCALE
    /\ state.energy > 0
    /\ LET g == ents[objects[idx]]
       IN  /\ IsGerm(g) /\ g.brain.code = code
           /\ ~g.success
           /\ get_birth_loc(Now, g.x, g.y, regs.result.x, regs.result.y)[1] # -1

\* the attributes the round trip is to keep
Attributes(e) ==
    IF IsGerm(e)
    THEN <<e.x, e.y, e.alive, e.energy, e.stamina, e.pain, e.success, e.burst,
           e.brain.code, e.brain.memory>>
    ELSE <<e.x, e.y, e.alive>>

\* position in w's registry of the entity cell c references, 0 for None
Occupant(w, c) ==
    IF w.tank[c] = 0 THEN 0
    ELSE CHOOSE i \in 1..Len(w.objects) : w.objects[i] = w.tank[c]

SameWorld(w, v) ==
    /\ Len(w.objects) = Len(v.objects)
    /\ \A i \in 1..Len(w.objects) :
          Attributes(w.ents[w.objects[i]]) = Attributes(v.ents[v.objects[i]])
    /\ \A c \in Cells : Occupant(w, c) = Occupant(v, c)

\* C8: between ticks, GermTank(world.to_json()) has the same grid occupancy
\* and the same attributes for every entity, in the same order.
C8_RoundTrip == pc = "idle" => SameWorld(LoadTank(to_json(Now)), Now)

\* between ticks, with a food particle and an organism whose memory, flags
\* and energy are no longer those of a new organism
C8_Witness ==
    /\ pc = "idle" /\ ticks > 0
    /\ \E id \in Registered : ~IsGerm(ents[id])
    /\ \E id \in Registered :
          /\ IsGerm(ents[id])
          /\ ents[id].brain.memory # Zeros
          /\ ents[id].energy # INIT_GERM_ENERGY

\* the world update() hands to get_view for the germ the loop is at: after
\* its upkeep and its meal
WorldAtRun ==
    dine([Now EXCEPT !.ents[Current] = IF burst_turn THEN @ ELSE Metabolise(@)],
         Current)

\* the view from (x, y) if exactly the entities of the set visible could be
\* seen, each where it reports to be
ViewOf(w, x, y, visible) ==
    LET At(c) == {id \in visible : <<w.ents[id].x, w.ents[id].y>> = c}
        Obj(k) == LET tgt == get_relative_loc(x, y, view_locs[k][1], view_locs[k][2])
                  IN  IF tgt[1] # -1 /\ At(tgt) # {}
                      THEN Seen(tgt[1] - x, tgt[2] - y,
                                ~IsGerm(w.ents[CHOOSE id \in At(tgt) : TRUE]))
                      ELSE None
        objs == [k \in 1..Len(view_locs) |-> Obj(k)]
        IsSeenGerm(o) == o # None /\ ~o.is_food
        IsSeenFood(o) == o # None /\ o.is_food
    IN  [germs |-> SelectSeq(objs, IsSeenGerm), food |-> SelectSeq(objs, IsSeenFood)]

\* the entities a view would show if the deaths and births of this tick were
\* held back: those of the registry that are alive, or were when update() was
\* called and died before this turn began
HeldBack(w) ==
    {id \in Registered : w.ents[id].alive \/ (id \in was_alive /\ ~ents[id].alive)}

\* the entities alive at this moment, registered or newborn
AliveNow(w) == {id \in DOMAIN w.ents : w.ents[id].alive}

\* C10 as stated: the view an organism's code is handed is not affected by
\* another entity having died or having been born earlier in the same tick.
C10_ViewsBuffered ==
    [][Acting =>
          state'.view = ViewOf(WorldAtRun, ents[Current].x, ents[Current].y,
                               HeldBack(WorldAtRun))]_vars

\* C10, amended: while the registry is iterated it is not changed and no
\* entity gives up its cell, dead or not, but the view an organism's code is
\* handed shows exactly the entities alive at that moment, the newborn of
\* this tick among them and the dead of this tick not.
C10_OnlyRegistryBuffered ==
    [][/\ InLoop =>
             /\ objects' = objects
             /\ \A id \in DOMAIN ents' : tank'[<<ents'[id].x, ents'[id].y>>] = id
       /\ Acting =>
             state'.view = ViewOf(WorldAtRun, ents[Current].x, ents[Current].y,
                                  AliveNow(WorldAtRun))]_vars

\* an organism has just run with a newborn of this tick in its view, and
\* the newborn is not in the registry
C10_Witness ==
    /\ pc = "iter" /\ idx > 0
    /\ regs.status = "returned"
    /\ LET g == ents[objects[idx]]
       IN  /\ IsGerm(g) /\ g.brain.code = code
           /\ \E n \in Queued \ Registered :
                 \E k \in 1..Len(state.view.germs) :
                    state.view.germs[k] = Seen(ents[n].x - g.x, ents[n].y - g.y, FALSE)

\* C11 as stated: after a completed tick no entity with alive = false is left
\* in the registry or referenced by a grid cell.
C11_NoDeadAfterTick ==
    (pc = "idle" /\ ticks > 0) =>
        /\ \A id \in Registered : ents[id].alive
        /\ \A c \in Cells : tank[c] # 0 => ents[tank[c]].alive


\* the entity the loop is at takes a turn: it is alive and, on a burst turn,
\* a germ that paid for the burst
TakesTurn ==
    /\ InLoop
    /\ ents[Current].alive
    /\ ~burst_turn \/ (IsGerm(ents[Current]) /\ ents[Current].burst)

\* what only an organism's own turn changes
OwnFields(e) == <<e.brain, e.energy, e.x, e.y, e.success, e.burst>>

\* C12: an organism created in a tick is queued, takes no turn in that tick
\* (no upkeep, no run of its code), and enters the registry at the
\* reconciliation of that tick.
C12_NewbornWaits ==
    [][/\ TakesTurn => (Current \in was_alive /\ Current \notin Queued)
       /\ InLoop =>
             /\ (DOMAIN ents' \ DOMAIN ents) \subseteq
                    {new_germs'[i] : i \in 1..Len(new_germs')}
             /\ \A n \in Queued :
                   /\ n \notin was_alive
                   /\ n \notin {objects'[i] : i \in 1..Len(objects')}
                   /\ OwnFields(ents'[n]) = OwnFields(ents[n])
       /\ (pc = "iter" /\ pc' = "regrow") =>
             /\ new_germs' = <<>>
             /\ \A n \in Queued : n \in {objects'[i] : i \in 1..Len(objects')}]_vars

\* the loop has ended with a newborn still queued, alive, and with the marks
\* of an attack a later organism made on it while it waited
C12_Witness ==
    /\ pc = "iter" /\ idx = Len(objects)
    /\ \E n \in Queued :
          /\ ents[n].alive /\ ents[n].pain > 0
          /\ ents[n].energy = INIT_GERM_ENERGY
          /\ ents[n].brain.memory = Zeros


\* what run() returned is one of: the action of a terminal instruction, the
\* empty action of 'ret' or of running off the end, Halt with the budget used
ReturnedInTime ==
    regs.status = "returned" =>
        \/ /\ regs.cmd \in {"mv", "bir", "att"}
           /\ regs.result.action = CASE regs.cmd = "mv" -> "move"
                                     [] regs.cmd = "bir" -> "birth"
                                     [] regs.cmd = "att" -> "attack"
        \/ regs.result = EmptyRequest /\ (regs.cmd = "ret" \/ regs.head >= Len(code))
        \/ regs.result = HaltRequest /\ regs.executed = MAX_EXECUTIONS

\* C13: every call of run() ends, after at most MAX_EXECUTIONS passes of its
\* loop, each of which executes one instruction; what it returns is the
\* action of a terminal instruction, the empty action, or Halt once the
\* budget is used up.
C13_RunTerminates ==
    /\ [](regs.executed <= MAX_EXECUTIONS)
    /\ []ReturnedInTime
    /\ [][RunIter => (regs'.status # "running" \/ regs'.executed = regs.executed + 1)]_vars
    /\ (regs.status = "running") ~> (regs.status # "running")

\* a call has ended in Halt after a branch was taken backward until the
\* budget was used up, the loop having set the direction on the way
C13_Witness ==
    /\ regs.status = "returned" /\ regs.result = HaltRequest
    /\ regs.executed = MAX_EXECUTIONS
    /\ regs.ay = -1


(***************************************************************************)
(* Claims about resolve_value (SpecEval).                                   *)
(***************************************************************************)
\* the value of an operand of the expression evaluated
Operand(k) == resolve_value(code[k], regs.memory, state)

\* the visibility list a perception operator reads
ListOf(op) == IF op \in {"gix", "giy"} THEN state.view.germs ELSE state.view.food

\* C14: a division whose divisor evaluates to 0 gives DIVIDE_BY_ZERO, and a
\* perception operator on an empty visibility list gives 0 whatever its index
\* evaluates to; neither is an error.
C14_ZeroAndEmptyDefined ==
    regs.status = "done" =>
        /\ (code[1] = "/" /\ ~Operand(2).err /\ ~Operand(3).err /\ Operand(3).v = 0)
              => regs.value = Ok(DIVIDE_BY_ZERO)
        /\ (code[1] \in Perception /\ ~Operand(2).err /\ ListOf(code[1]) = <<>>)
              => regs.value = Ok(0)

\* a division has been evaluated whose divisor is a perception operator on an
\* empty list: the inner lookup gave 0 and the division the sentinel
C14_Witness ==
    /\ regs.status = "done"
    /\ code[1] = "/" /\ Len(code[3]) = 2 /\ code[3][1] \in Perception
    /\ ListOf(code[3][1]) = <<>>
    /\ regs.value = Ok(DIVIDE_BY_ZERO)


\* the grid cells that reference entity id
CellsOf(id) == {c \in Cells : tank[c] = id}

\* C15: between ticks a cell references an entity exactly if the entity is in
\* the registry and reports that cell as its position, and every registry
\* entity is listed once and referenced by exactly the cell at its position.
C15_GridMatchesRegistry ==
    pc = "idle" =>
        /\ \A c \in Cells :
              tank[c] # 0 => /\ tank[c] \in Registered
                             /\ <<ents[tank[c]].x, ents[tank[c]].y>> = c
        /\ \A id \in Registered : CellsOf(id) = {<<ents[id].x, ents[id].y>>}
        /\ \A i, j \in 1..Len(objects) : objects[i] = objects[j] => i = j
        /\ new_germs = <<>>

\* a tick has completed in which a newborn joined the registry and an entity
\* with a smaller id left it
C15_Witness ==
    /\ pc = "idle" /\ ticks > 0
    /\ \E born \in Registered :
          /\ IsGerm(ents[born]) /\ ents[born].alive
          /\ ents[born].energy = INIT_GERM_ENERGY /\ ents[born].brain.code = BreederCode
          /\ CellsOf(born) = {<<ents[born].x, ents[born].y>>}
          /\ \E gone \in 1..born : gone \notin Registered


\* the acting germ as dine() finds it
BeforeDine == IF burst_turn THEN ents[Current] ELSE Metabolise(ents[Current])

\* the food particles the dine() call of this turn marks dead
Eaten == {f \in DOMAIN ents : ents[f].alive /\ ~WorldAtRun.ents[f].alive}

\* C16: the dine() call of a turn marks at most one food particle dead and
\* raises the germ's energy by at most FOOD_ENERGY.
C16_DineEatsOne ==
    [][Acting => /\ Cardinality(Eaten) <= 1
                 /\ WorldAtRun.ents[Current].energy - BeforeDine.energy <= FOOD_ENERGY
                 /\ state'.energy - BeforeDine.energy <= FOOD_ENERGY]_vars


(***************************************************************************)
(* Claims about STARTING_CODE (SpecRun).                                    *)
(***************************************************************************)
\* x is -1, 0 or 1 with the sign of v
HasSignOf(x, v) == x \in {-1, 0, 1} /\ (v > 0 <=> x = 1) /\ (v < 0 <=> x = -1)

\* run() has returned the move towards the first food particle of the view,
\* which get_view lists nearest first; (0, 0) when the view holds no food
MovesToNearestFood ==
    /\ regs.result.action = "move"
    /\ IF state.view.food = <<>>
       THEN regs.result.x = 0 /\ regs.result.y = 0
       ELSE /\ HasSignOf(regs.result.x, state.view.food[1].dx)
            /\ HasSignOf(regs.result.y, state.view.food[1].dy)

GivesBirth == regs.result.action = "birth" /\ regs.result.x = 1

StartingCodeDone == code = STARTING_CODE /\ regs.status # "running"

EvolvedStates == {st \in RunStates : st.success /\ st.energy # 70 * SCALE + 500}
EvolvedMemories == {[i \in 1..MEMORY_SIZE |-> 3 - 2 * i]}

NewBranch == Cardinality(Branches(brain'.code)) > Cardinality(Branches(brain.code))

\* C19: marks and 'if' instructions pair off one to one; a mutation adds a
\* mark only when it generates a new 'if', and a mutation that inserts any
\* other instruction makes the code exactly one instruction longer.
C19_MarkOnlyWithBranch ==
    /\ [](/\ \A j \in Marks(brain.code) :
               Cardinality({i \in Branches(brain.code) :
                               brain.code[i][3] = brain.code[j][2]}) = 1
          /\ \A i \in Branches(brain.code) :
               Cardinality({j \in Marks(brain.code) :
                               brain.code[j][2] = brain.code[i][3]}) = 1)
    /\ [][Mutate =>
            /\ Cardinality(Marks(brain'.code)) > Cardinality(Marks(brain.code))
                  => NewBranch
            /\ (Len(brain'.code) > Len(brain.code) /\ ~NewBranch)
                  => Len(brain'.code) = Len(brain.code) + 1]_vars


\* the insertions mutate_command can make when command at (0-based) was
\* selected, each with the places where the new and the selected instruction
\* end up.  The mark of rand_command has a fresh name, so it is found by name.
InsertedAt(cd, ids, at) ==
    LET mark == <<"mrk", MarkName(NewMarkId(ids))>>
        MarkAt(marked) == (CHOOSE i \in 1..Len(marked) : marked[i] = mark) - 1
        Shifted(marked) == IF MarkAt(marked) <= at THEN at + 1 ELSE at
    IN  {[brain |-> Brain(Insert(bc[1].code, index, bc[2]), bc[1].mark_ids),
          new_at |-> index,
          selected_at |-> IF index <= Shifted(bc[1].code)
                          THEN Shifted(bc[1].code) + 1 ELSE Shifted(bc[1].code)] :
            index \in {at, at + 1}, bc \in rand_command(cd, ids)}

\* C20: when a mutation inserts an instruction, the new instruction ends up
\* immediately before or immediately after the instruction that was selected.
C20_InsertedNextToSelected ==
    [][Mutate =>
          \A site \in FlatCode(brain.code) :
              site[1] = "cmd" =>
                  \A t \in InsertedAt(brain.code, brain.mark_ids, site[2][1]) :
                      t.brain = brain' => Abs(t.new_at - t.selected_at) = 1]_vars


(***************************************************************************)
(* Claims about views (Spec).                                               *)
(***************************************************************************)
\* the entries of a view, organisms and food
Entries(view) ==
    {view.germs[i] : i \in 1..Len(view.germs)} \cup {view.food[i] : i \in 1..Len(view.food)}

\* the offsets of view_locs
ViewOffsets == {view_locs[k] : k \in 1..Len(view_locs)}

\* C21: every entry of the view handed to an organism's code reports one of
\* the precomputed view offsets, so dx*dx + dy*dy <= GERM_VIEW_DIST^2, across
\* the wrapped horizontal edge of the world as elsewhere.
C21_ViewReportsOffset ==
    [][Acting =>
          \A o \in Entries(state'.view) :
              /\ <<o.dx, o.dy>> \in ViewOffsets
              /\ o.dx * o.dx + o.dy * o.dy <= GERM_VIEW_DIST * GERM_VIEW_DIST]_vars


\* the view diameter fits the width: no cell is reached by two offsets
ViewFits == 2 * GERM_VIEW_DIST + 1 <= TANK_WIDTH

\* the cells within GERM_VIEW_DIST of (x, y), x wrapped and y bounded
InView(x, y) ==
    {c \in Cells :
        /\ c # <<x, y>>
        /\ \E i, j \in -GERM_VIEW_DIST..GERM_VIEW_DIST :
              /\ i * i + j * j <= GERM_VIEW_DIST * GERM_VIEW_DIST
              /\ c[1] = (x + i) % TANK_WIDTH
              /\ c[2] = y + j}

\* the squared distance of the offset at which the entity in cell c is found
FoundAt(x, y, c) ==
    LET off == CHOOSE o \in ViewOffsets : get_relative_loc(x, y, o[1], o[2]) = c
    IN  off[1] * off[1] + off[2] * off[2]

\* list holds, once each and nearest first, the entities of world w that are
\* alive, in view of (x, y) and food or not as food says
ListsExactly(list, w, x, y, food) ==
    LET CellOf(o) == <<x + o.dx, y + o.dy>>
        Wanted == {c \in InView(x, y) :
                      /\ w.tank[c] # 0
                      /\ w.ents[w.tank[c]].alive
                      /\ IsGerm(w.ents[w.tank[c]]) = ~food}
    IN  /\ \A i \in 1..Len(list) : list[i].is_food = food
        /\ {CellOf(list[i]) : i \in 1..Len(list)} = Wanted
        /\ Len(list) = Cardinality(Wanted)
        /\ \A i, j \in 1..Len(list) :
              i < j => FoundAt(x, y, CellOf(list[i])) <= FoundAt(x, y, CellOf(list[j]))

\* C22: the view handed to an organism's code holds exactly the live entities
\* in the cells within GERM_VIEW_DIST of it (x wrapped, y bounded), never the
\* observer and never a dead entity, organisms and food in separate lists,
\* each list by non-decreasing distance of the offset the entity was found at.
C22_ViewExactAndOrdered ==
    [][(Acting /\ ViewFits) =>
          /\ ListsExactly(state'.view.germs, WorldAtRun,
                          WorldAtRun.ents[Current].x, WorldAtRun.ents[Current].y, FALSE)
          /\ ListsExactly(state'.view.food, WorldAtRun,
                          WorldAtRun.ents[Current].x, WorldAtRun.ents[Current].y, TRUE)]_vars

\* an organism has been handed a view with two organisms at different
\* distances, the nearer first, while a dead entity still holds a cell
C22_Witness ==
    /\ pc = "iter" /\ regs.status = "returned"
    /\ Len(state.view.germs) >= 2
    /\ state.view.germs[1].dx * state.view.germs[1].dx
           + state.view.germs[1].dy * state.view.germs[1].dy
         < state.view.germs[2].dx * state.view.germs[2].dx
           + state.view.germs[2].dy * state.view.germs[2].dy
    /\ \E c \in Cells : tank[c] # 0 /\ ~ents[tank[c]].alive


(***************************************************************************)
(* Claims about the resolution of actions (Spec).                           *)
(***************************************************************************)
\* run() returned the action act to the organism whose turn this step is
Resolves(act) ==
    Acting /\ regs'.status = "returned" /\ regs'.result.action = act

\* the acting organism as process_request finds it, before the burst is paid
Actor == WorldAtRun.ents[Current]

\* what the burst lines take
BurstPaid == IF regs'.result.burst THEN BURST_COST ELSE 0

\* the cell one step (dx, dy) from the actor, x wrapped; y may be off the grid
StepFrom(dx, dy) == <<(Actor.x + dx) % TANK_WIDTH, Actor.y + dy>>

\* the Euclidean norm of a step of -1, 0, 1 on each axis
Norm(dx, dy) ==
    IF dx = 0 /\ dy = 0 THEN 0 ELSE IF dx = 0 \/ dy = 0 THEN SCALE ELSE SQRT_2

\* C23: a move succeeds exactly if the target cell (x wrapped, y bounded) is
\* in bounds and references no entity.  On success the organism's position is
\* the target, the grid references it only there, its old cell is empty and
\* its energy has dropped by the norm of (dx, dy); on failure position and
\* grid are unchanged and success is false, as for dx = dy = 0.
C23_MoveResolution ==
    [][Resolves("move") =>
          LET tgt == StepFrom(regs'.result.x, regs'.result.y)
              free == tgt \in Cells /\ tank[tgt] = 0
              me == ents'[Current]
          IN  /\ me.success = free
              /\ free =>
                    /\ <<me.x, me.y>> = tgt
                    /\ {c \in Cells : tank'[c] = Current} = {tgt}
                    /\ tank'[<<Actor.x, Actor.y>>] = 0
                    /\ \A c \in Cells \ {tgt, <<Actor.x, Actor.y>>} : tank'[c] = tank[c]
                    /\ me.energy = Min(MAX_GERM_ENERGY,
                                       Actor.energy - BurstPaid
                                           - Norm(regs'.result.x, regs'.result.y))
              /\ ~free =>
                    /\ <<me.x, me.y>> = <<Actor.x, Actor.y>>
                    /\ tank' = tank
                    /\ me.energy = Min(MAX_GERM_ENERGY, Actor.energy - BurstPaid)
              /\ (regs'.result.x = 0 /\ regs'.result.y = 0) => ~me.success]_vars

\* an organism has just moved one cell to the right, paying for a burst as
\* well, and holds its new cell only
C23_Witness ==
    /\ pc = "iter" /\ idx > 0 /\ regs.status = "returned"
    /\ regs.result.action = "move" /\ regs.result.x = 1
    /\ IsGerm(ents[objects[idx]]) /\ ents[objects[idx]].brain.code = code
    /\ ents[objects[idx]].success /\ ents[objects[idx]].burst /\ regs.result.burst
    /\ {c \in Cells : tank[c] = objects[idx]}
          = {<<ents[objects[idx]].x, ents[objects[idx]].y>>}

(***************************************************************************)
(* Claims about burst ticks (Spec).                                         *)
(***************************************************************************)
\* a live organism whose last action paid for a burst
Flagged(e) == e.alive /\ IsGerm(e) /\ e.burst

\* what an entity keeps when it takes no turn: position, and for an organism
\* energy, memory, success and burst flag
KeptFields(e) ==
    IF IsGerm(e) THEN <<e.x, e.y, e.energy, e.brain.memory, e.success, e.burst>>
    ELSE <<e.x, e.y>>

\* C24: on a burst tick an organism eats, runs its code and has an action
\* resolved exactly if its burst flag is set; every other organism and every
\* food particle keeps energy, position, memory, success and burst flag (no
\* upkeep, no drift), whatever attacks do to its stamina, pain and alive flag.
C24_BurstTickOnlyFlaggedAct ==
    [][(InLoop /\ burst_turn) =>
          /\ Flagged(ents[Current]) <=> Acting
          /\ Flagged(ents[Current]) =>
                /\ code' = ents[Current].brain.code
                /\ state' = Snapshot(dine(Now, Current), Current)
                /\ regs'.status # "running"
          /\ ~Flagged(ents[Current]) => UNCHANGED <<ents, tank, new_germs, runVars>>
          /\ \A id \in DOMAIN ents \ {Current} :
                id \in DOMAIN ents' /\ KeptFields(ents'[id]) = KeptFields(ents[id])]_vars

\* the loop of a burst tick has ended: the burster has moved a second cell,
\* and an organism without the flag is where it was with the energy it had
C24_Witness ==
    /\ pc = "iter" /\ burst_turn /\ idx = Len(objects) /\ ticks = 1
    /\ \E id \in Registered :
          /\ IsGerm(ents[id]) /\ ents[id].brain.code = BursterCode
          /\ ents[id].x = 2 /\ ents[id].burst
    /\ \E id \in Registered :
          /\ IsGerm(ents[id]) /\ ents[id].brain.code = LooperCode
          /\ ents[id].alive /\ ~ents[id].burst


(***************************************************************************)
(* Claims about eating and attacking (Spec).                                *)
(***************************************************************************)
\* the cells next to the actor: x wrapped, y bounded
NeighbourCells ==
    {StepFrom(dx, dy) : dx \in -1..1, dy \in -1..1} \cap (Cells \ {<<Actor.x, Actor.y>>})

\* the step damaged, killed or ate entity id
Harmed(id) ==
    \/ ents'[id].alive # ents[id].alive
    \/ IsGerm(ents[id]) /\ <<ents'[id].stamina, ents'[id].pain>>
                              # <<ents[id].stamina, ents[id].pain>>

\* C25: the turn of an organism damages, kills or eats only entities in its 8
\* neighbouring cells; a neighbour beyond the top or bottom edge is skipped by
\* the food scan and makes an attack unsuccessful.
C25_OnlyNeighboursHarmed ==
    [][Acting =>
          /\ \A id \in DOMAIN ents \ {Current} :
                Harmed(id) => <<ents[id].x, ents[id].y>> \in NeighbourCells
          /\ (/\ regs'.status = "returned" /\ regs'.result.action = "attack"
              /\ StepFrom(regs'.result.x, regs'.result.y) \notin Cells)
                => ~ents'[Current].success]_vars


C27_NoSelfAttack ==
    [][(/\ Resolves("attack")
        /\ regs'.result.x = 0 /\ regs'.result.y = 0) =>
          /\ ~ents'[Current].success
          /\ ents'[Current].stamina = Actor.stamina
          /\ ents'[Current].alive = Actor.alive]_vars


(***************************************************************************)
(* Claims about the food population (Spec).                                 *)
(***************************************************************************)
\* the food particles of the registry
FoodRegistered == {id \in Registered : ~IsGerm(ents[id])}

\* C28: between ticks, in a new world as in a loaded one, food_count is the
\* number of food particles in the registry.
C28_FoodCountMatches ==
    pc = "idle" => food_count = Cardinality(FoodRegistered)


\* TANK_WIDTH * TANK_HEIGHT * MAX_FOOD_DENSITY in whole particles, rounded up:
\* the density cap itself wherever it is a whole number (675 in the source)
CapParticles ==
    LET max_food == TANK_WIDTH * TANK_HEIGHT * MAX_FOOD_DENSITY
    IN  (max_food + SCALE - 1) \div SCALE

\* the cells the regrowth of this step fills
Placed == {c \in Cells : tank[c] = 0 /\ tank'[c] # 0}

C30_ReadsBetweenTicks ==
    ~(/\ pc = "iter"
      /\ \/ runner.loop \in {"in_get_pixels", "in_to_json"}
         \/ runner.main = "in_to_json")

=============================================================================
